---- MODULE Spec2Model ----
(***************************************************************************)
(* Model of the annotation-integration and colour-encoding engine of       *)
(* GenomePlotter: DataIntegrator (coordinates, gene/exon join, centromere  *)
(* and heterochromatin passes), the colour functions (linear_gradient,     *)
(* color_darkener, ColorPicker), the drivers (integrator_wrapper,         *)
(* integrate_data, CustomGeneIntegrator.integrate), the gene label layout  *)
(* of GeneAnnotator and the transcript selection and exon / intron         *)
(* structure of FetchGencode.                                              *)
(*                                                                         *)
(* Conventions                                                             *)
(*  - a pandas NaN / None number is the empty tuple NaN, a defined number  *)
(*    v is the 1-tuple <<v>>;                                              *)
(*  - a float is an exact rational; gc ratios are multiples of 1/GcDen;    *)
(*  - a colour string is the tuple of its 7 characters;                    *)
(*  - a chunk table is a sequence of records, `columns' is the set of      *)
(*    column names the DataFrame currently has (a field whose column is    *)
(*    absent holds a placeholder that no operation reads).                 *)
(***************************************************************************)
EXTENDS Integers, Sequences, FiniteSets, TLC

VARIABLES
    pc,              \* position of the driver / of the call under test
    err,             \* the exception that ended the run, NoErr while none
    dummy,           \* the driver's dummy flag
    width,           \* the width argument (plot_parameters.width)
    genome,          \* DataIntegrator.__genome__ (before construction: chr_df)
    columns,         \* the columns of the chunk table
    self_width,      \* DataIntegrator.__width__
    gencode_df,      \* the gene/exon feature table
    cyb_df,          \* the cytoband table
    cfg_colors, cfg_dark_max, cfg_dark_start, cfg_count,   \* ColorPicker arguments
    picker,          \* the ColorPicker object
    grad_start, grad_finish, grad_length, grad_out,  \* a linear_gradient call
    call_args,       \* the arguments of a direct call of a colour function
    call_out,        \* what that call returned or raised
    call_log,        \* the results of the calls made so far, column by column
    ga_args,         \* the arguments of GeneAnnotator(...), the rows of the gene file included
    ga,              \* the GeneAnnotator object
    arm, arm_df,     \* genes_on_chromosome_arms: its arm and the rows still to iterate
    limit,           \* genes_on_chromosome_arms: its local limit
    driver,          \* the driver that runs the pipeline
    steps,           \* the DataIntegrator methods the driver has called in this run
    chr_df,          \* the chunk table the driver hands to DataIntegrator(...)
    shared,          \* DataIntegrator.__genome__ is the very object chr_df
    runs             \* the runs of the driver so far: input and resulting table

vars == <<pc, err, dummy, width, genome, columns, self_width, gencode_df, cyb_df,
          cfg_colors, cfg_dark_max, cfg_dark_start, cfg_count, picker,
          grad_start, grad_finish, grad_length, grad_out, call_args, call_out,
          call_log, ga_args, ga, arm, arm_df, limit, driver, steps, chr_df, shared,
          runs>>

data_vars == <<genome, columns, self_width>>

input_vars == <<dummy, width, gencode_df, cyb_df, cfg_colors, cfg_dark_max,
                cfg_dark_start, cfg_count>>

grad_vars == <<grad_start, grad_finish, grad_length, grad_out>>

call_vars == <<call_args, call_out, call_log>>

annot_vars == <<ga_args, ga, arm, arm_df, limit>>

run_vars == <<driver, steps, chr_df, shared, runs>>

(***************************************************************************)
(* Bounds of the model.                                                    *)
(***************************************************************************)
MaxChunks == 3

MaxOffset == 1

MaxFeatures == 2

MaxBands == 2

MaxWidth == 3

MaxLength == 4

MaxColumn == 4

MaxGenes == 4

MaxStart == 5

ChunkSize == 2

GcDen == 4

(***************************************************************************)
(* Values.                                                                 *)
(***************************************************************************)
NaN == <<>>

Num(v) == <<v>>

IsNull(v) == v = NaN

ThisChr == "1"

OtherChr == "2"

NoLabel == "None"

NoErr == ""

Range(s) == {s[i] : i \in DOMAIN s}

Min(S) == CHOOSE a \in S : \A b \in S : a <= b

Max(S) == CHOOSE a \in S : \A b \in S : a >= b

\* numpy remainder of a non-negative index: the result has the sign of the divisor
PyMod(a, b) == IF b > 0 THEN a % b ELSE -((-a) % (-b))

\* variant: the quotient rounded to the nearest integer instead of truncated
RoundDiv(a, b) == IF b > 0 THEN (2 * a + b) \div (2 * b) ELSE -((2 * a - b) \div (-2 * b))

\* float division followed by astype("int32"): truncation toward zero
TruncDiv(a, b) == IF b > 0 THEN a \div b ELSE -(a \div (-b))

\* an argument that is expected to be an int: an int, or a value that is not one
\* (None for a width, a str or a float for a count or a length)
IntArg(n) == [isint |-> TRUE, v |-> n]

NotAnInt == [isint |-> FALSE, v |-> 0]

\* python truthiness of the width argument: None and 0 are falsy
Falsy(w) == ~w.isint \/ w.v = 0

(***************************************************************************)
(* The chunk table as read from the chromosome file: n fixed-size chunks   *)
(* of one chromosome, sorted by start.  `off' is the index label of the    *)
(* first row (0 for a table read from file, > 0 for a filtered sub-range). *)
(***************************************************************************)
Chunk(k, off, gc) ==
    [index |-> off + k - 1, chr |-> ThisChr,
     start |-> (off + k - 1) * ChunkSize, end |-> (off + k) * ChunkSize,
     GC_ratio |-> gc, x |-> 0, y |-> 0, GENCODE |-> NoLabel, color |-> <<>>]

RawColumns == {"chr", "start", "end", "GC_ratio"}

(***************************************************************************)
(* DataIntegrator.add_xy_coordinates                                       *)
(***************************************************************************)
\* the width actually used
used_width(g, w) == IF Falsy(w) THEN Len(g) ELSE w.v

\* variant: the index labels are kept
keep_index(g) == g

\* reset_index(drop=True) happens only on the default-width branch
reset_index(g) == [k \in 1..Len(g) |-> [g[k] EXCEPT !.index = k - 1]]

\* variant: the position of the chunk in the table, whatever its index label
add_xy_coordinates_ordinal(g, w) ==
    LET ww == used_width(g, w)
    IN  [k \in 1..Len(g) |->
            [reset_index(g)[k] EXCEPT !.x = PyMod(k - 1, ww), !.y = TruncDiv(k - 1, ww)]]

add_xy_coordinates(g, w) ==
    LET g1 == IF Falsy(w) THEN reset_index(g) ELSE g
        ww == used_width(g, w)
    IN  [k \in 1..Len(g1) |->
            [g1[k] EXCEPT !.x = PyMod(g1[k].index, ww),
                          !.y = TruncDiv(g1[k].index, ww)]]

(***************************************************************************)
(* DataIntegrator.add_genes                                                *)
(***************************************************************************)
\* variant: intervals that only touch count as overlapping
bed_overlap_closed(a, b) == a.start <= b.end /\ b.start <= a.end

\* bedtools intersect: two intervals overlap when they share at least one base
bed_overlap(a, b) == a.start < b.end /\ b.start < a.end

\* chrom_bed.intersect(gencode_bed, wa=True, wb=True): one row per overlapping pair
intersect(g, bed) ==
    {<<k, f>> \in (1..Len(g)) \X bed : g[k].chr = f.chr /\ bed_overlap(g[k], f)}

\* the "type" column of intersect_df: the 13 names match the 13 fields only when
\* the chunk table already has its x and y columns; otherwise the last names get NaN
type_column(cols, f) == IF {"x", "y"} \subseteq cols THEN f.type ELSE "nan"

\* groupby("start").apply(...): chunk start -> "exon" | "gene", for joined chunks
gencode_chunks(g, cols, bed) ==
    LET idf == intersect(g, bed)
        keys == {g[p[1]].start : p \in idf}
        types(s) == {type_column(cols, p[2]) : p \in {q \in idf : g[q[1]].start = s}}
    IN  [s \in keys |-> IF "exon" \in types(s) THEN "exon" ELSE "gene"]

\* merge(how="left") on start, then fillna({"GENCODE": "intergenic"})
add_genes(g, cols, df, chromosome_name) ==
    LET bed == {f \in df : f.chr = chromosome_name}
        gc == gencode_chunks(g, cols, bed)
    IN  [k \in 1..Len(g) |->
            [g[k] EXCEPT !.GENCODE =
                IF g[k].start \in DOMAIN gc THEN gc[g[k].start] ELSE "intergenic"]]

(***************************************************************************)
(* DataIntegrator.add_centromere, assign_hetero, add_dummy                 *)
(***************************************************************************)
\* the acen bands of the chunk table's chromosome
acen_bands(cyb, chromosome) == {b \in cyb : b.chr = chromosome /\ b.type = "acen"}

\* variant: the span over all bands of the chromosome, whatever their type
centromer_loc_all_bands(cyb, chromosome) ==
    LET bands == {b \in cyb : b.chr = chromosome}
    IN  <<Min({b.start : b \in bands}), Max({b.end : b \in bands})>>

centromer_loc(cyb, chromosome) ==
    LET bands == acen_bands(cyb, chromosome)
    IN  <<Min({b.start : b \in bands}), Max({b.end : b \in bands})>>

in_centromere(c, loc) == c.end > loc[1] /\ c.start < loc[2]

\* Series.__getitem__ by index label
has_label(g, i) == \E k \in 1..Len(g) : g[k].index = i

label_row(g, i) == g[CHOOSE k \in 1..Len(g) : g[k].index = i]

add_centromere(g, cols, cyb) ==
    LET loc == centromer_loc(cyb, label_row(g, 1).chr)
        g1 == IF "GENCODE" \in cols THEN g
              ELSE [k \in 1..Len(g) |-> [g[k] EXCEPT !.GENCODE = NoLabel]]
    IN  [k \in 1..Len(g1) |->
            IF in_centromere(g1[k], loc)
            THEN [g1[k] EXCEPT !.GENCODE = "centromere"] ELSE g1[k]]

\* variant: a centromere label is not overwritten
assign_hetero_keep_centromere(g) ==
    [k \in 1..Len(g) |->
        IF IsNull(g[k].GC_ratio) /\ g[k].GENCODE # "centromere"
        THEN [g[k] EXCEPT !.GENCODE = "heterochromatin"]
        ELSE g[k]]

assign_hetero(g) ==
    [k \in 1..Len(g) |->
        IF IsNull(g[k].GC_ratio) THEN [g[k] EXCEPT !.GENCODE = "heterochromatin"]
        ELSE g[k]]

\* variant: the chunks without a label keep the null
add_dummy_keep_null(g) == g

\* GENCODE.fillna("dummy") on the branch where the column exists
add_dummy(g) ==
    [k \in 1..Len(g) |->
        IF g[k].GENCODE = NoLabel THEN [g[k] EXCEPT !.GENCODE = "dummy"] ELSE g[k]]

(***************************************************************************)
(* Colour strings: hex_to_rgb, rgb_to_hex                                  *)
(***************************************************************************)
LowerDigits == <<"0", "1", "2", "3", "4", "5", "6", "7", "8", "9",
                 "a", "b", "c", "d", "e", "f">>

UpperDigits == <<"0", "1", "2", "3", "4", "5", "6", "7", "8", "9",
                 "A", "B", "C", "D", "E", "F">>

\* str.lower() on the characters that have a lower-case form here
LowerOf == [i \in 11..16 |-> LowerDigits[i]]

UpperIndex == ("A" :> 11) @@ ("B" :> 12) @@ ("C" :> 13) @@ ("D" :> 14) @@
              ("E" :> 15) @@ ("F" :> 16)

lower_char(ch) == IF ch \in DOMAIN UpperIndex THEN LowerOf[UpperIndex[ch]] ELSE ch

lower(str) == [i \in 1..Len(str) |-> lower_char(str[i])]

\* int(ch, 16) of one lower-case character
DigitValue == [ch \in Range(LowerDigits) |->
                 (CHOOSE i \in 1..16 : LowerDigits[i] = ch) - 1]

is_hex_digit(ch) == lower_char(ch) \in DOMAIN DigitValue

digit_value(ch) == DigitValue[lower_char(ch)]

\* the inputs on which hex_to_rgb raises ValueError (length or prefix test, or
\* int(.., 16) on a non-hex digit)
hex_to_rgb_raises(hex_color) ==
    \/ Len(hex_color) # 7
    \/ hex_color[1] # "#"
    \/ \E i \in 2..7 : ~is_hex_digit(hex_color[i])

hex_to_rgb(hex_color) ==
    [j \in 1..3 |-> 16 * digit_value(hex_color[2 * j]) + digit_value(hex_color[2 * j + 1])]

\* "{0:x}".format(v) for v >= 0
RECURSIVE format_x(_)
format_x(v) == IF v < 0 THEN <<"-">> \o format_x(-v)
               ELSE IF v < 16 THEN <<LowerDigits[v + 1]>>
               ELSE format_x(v \div 16) \o <<LowerDigits[(v % 16) + 1]>>

\* variant: no zero padding of the values below 16
rgb_to_hex_unpadded(rgb_color) ==
    <<"#">> \o format_x(rgb_color[1]) \o format_x(rgb_color[2]) \o format_x(rgb_color[3])

rgb_to_hex(rgb_color) ==
    LET part(v) == IF v < 16 THEN <<"0">> \o format_x(v) ELSE format_x(v)
    IN  <<"#">> \o part(rgb_color[1]) \o part(rgb_color[2]) \o part(rgb_color[3])

(***************************************************************************)
(* linear_gradient                                                         *)
(***************************************************************************)
\* variant: the interpolated value rounded to the nearest integer
interpolate_rounded(start_c, finish_c, step, length) ==
    (2 * (start_c * (length - 1) + step * (finish_c - start_c)) + (length - 1))
        \div (2 * (length - 1))

\* int(start + (float(step) / (length - 1)) * (finish - start)): the value lies
\* between the two channel values, so int() is the floor of the exact quotient
interpolate(start_c, finish_c, step, length) ==
    (start_c * (length - 1) + step * (finish_c - start_c)) \div (length - 1)

Returned(v) == [raised |-> NoErr, value |-> v]

Raised(e) == [raised |-> e, value |-> <<>>]

\* the loop of linear_gradient over range(1, length), after the first element
gradient_steps(first, start_rgb, finish_rgb, n) ==
    [t \in 1..(IF n < 1 THEN 1 ELSE n) |->
        IF t = 1 THEN first
        ELSE rgb_to_hex([j \in 1..3 |->
                interpolate(start_rgb[j], finish_rgb[j], t - 1, n)])]

linear_gradient(start_hex, finish_hex, length) ==
    IF hex_to_rgb_raises(start_hex) \/ hex_to_rgb_raises(finish_hex)
    THEN Raised("ValueError")
    ELSE IF ~length.isint THEN Raised("ValueError")
    ELSE IF length.v = 0 THEN Returned(<<>>)
    ELSE Returned(gradient_steps(lower(start_hex), hex_to_rgb(start_hex),
                                 hex_to_rgb(finish_hex), length.v))

(***************************************************************************)
(* Exact rationals standing for the floats of the colour arithmetic.       *)
(***************************************************************************)
Abs(a) == IF a < 0 THEN -a ELSE a

RECURSIVE Gcd(_, _)
Gcd(a, b) == IF b = 0 THEN a ELSE Gcd(b, a % b)

\* the fraction n/d in lowest terms with a positive denominator (d # 0)
Rat(n, d) ==
    LET g == Gcd(Abs(n), Abs(d))
        sgn == IF d < 0 THEN -1 ELSE 1
    IN  [n |-> sgn * (n \div g), d |-> sgn * (d \div g)]

RInt(a) == [n |-> a, d |-> 1]

RAdd(p, q) ==
    LET g == Gcd(p.d, q.d)
    IN  Rat(p.n * (q.d \div g) + q.n * (p.d \div g), (p.d \div g) * q.d)

RNeg(p) == [n |-> -p.n, d |-> p.d]

RSub(p, q) == RAdd(p, RNeg(q))

RMul(p, q) ==
    LET a == Rat(p.n, q.d)
        b == Rat(q.n, p.d)
    IN  [n |-> a.n * b.n, d |-> a.d * b.d]

\* p / q for q # 0
RDiv(p, q) == RMul(p, Rat(q.d, q.n))

RLt(p, q) == RSub(p, q).n < 0

RLe(p, q) == RSub(p, q).n <= 0

\* float % 1.0: the result lies in [0, 1)
RMod1(p) == [n |-> p.n % p.d, d |-> p.d]

\* int(): truncation toward zero
RTrunc(p) == IF p.n >= 0 THEN p.n \div p.d ELSE -((-p.n) \div p.d)

(***************************************************************************)
(* colorsys.rgb_to_hls / hls_to_rgb, as color_darkener uses them.          *)
(***************************************************************************)
RMax3(a, b, c) == LET m == IF RLt(a, b) THEN b ELSE a IN IF RLt(m, c) THEN c ELSE m

RMin3(a, b, c) == LET m == IF RLt(b, a) THEN b ELSE a IN IF RLt(c, m) THEN c ELSE m

rgb_to_hls(r, g, b) ==
    LET maxc == RMax3(r, g, b)
        minc == RMin3(r, g, b)
        sumc == RAdd(maxc, minc)
        rangec == RSub(maxc, minc)
        l == RDiv(sumc, RInt(2))
    IN  IF minc = maxc THEN <<RInt(0), l, RInt(0)>>
        ELSE LET s == IF RLe(l, Rat(1, 2)) THEN RDiv(rangec, sumc)
                      ELSE RDiv(rangec, RSub(RInt(2), sumc))
                 rc == RDiv(RSub(maxc, r), rangec)
                 gc == RDiv(RSub(maxc, g), rangec)
                 bc == RDiv(RSub(maxc, b), rangec)
                 h == IF r = maxc THEN RSub(bc, gc)
                      ELSE IF g = maxc THEN RAdd(RInt(2), RSub(rc, bc))
                      ELSE RAdd(RInt(4), RSub(gc, rc))
             IN  <<RMod1(RDiv(h, RInt(6))), l, s>>

hls_v(m1, m2, hue0) ==
    LET hue == RMod1(hue0)
    IN  IF RLt(hue, Rat(1, 6))
        THEN RAdd(m1, RMul(RMul(RSub(m2, m1), hue), RInt(6)))
        ELSE IF RLt(hue, Rat(1, 2)) THEN m2
        ELSE IF RLt(hue, Rat(2, 3))
        THEN RAdd(m1, RMul(RMul(RSub(m2, m1), RSub(Rat(2, 3), hue)), RInt(6)))
        ELSE m1

hls_to_rgb(h, l, s) ==
    IF s = RInt(0) THEN <<l, l, l>>
    ELSE LET m2 == IF RLe(l, Rat(1, 2)) THEN RMul(l, RAdd(RInt(1), s))
                   ELSE RSub(RAdd(l, s), RMul(l, s))
             m1 == RSub(RMul(RInt(2), l), m2)
         IN  <<hls_v(m1, m2, RAdd(h, Rat(1, 3))), hls_v(m1, m2, h),
               hls_v(m1, m2, RSub(h, Rat(1, 3)))>>

(***************************************************************************)
(* color_darkener                                                          *)
(***************************************************************************)
\* an argument that is expected to be a float
FloatArg(q) == [isfloat |-> TRUE, q |-> q]

NotAFloat == [isfloat |-> FALSE, q |-> RInt(0)]

\* re.match(r"#[0-9A-Fa-f]{6}", color): a match of the first seven characters
re_match_hex(color) ==
    /\ Len(color) >= 7
    /\ color[1] = "#"
    /\ \A i \in 2..7 : is_hex_digit(color[i])

\* variant: the factor grows with the column
darken_factor_brighter(x, w, threshold, max_diff_value) ==
    LET col_frac == Rat(x, w)
        diff == RDiv(RSub(col_frac, threshold), RSub(RInt(1), threshold))
    IN  RAdd(RInt(1), RMul(max_diff_value, diff))

\* the lightness factor applied past the threshold
darken_factor(x, w, threshold, max_diff_value) ==
    LET col_frac == Rat(x, w)
        diff == RDiv(RSub(col_frac, threshold), RSub(RInt(1), threshold))
    IN  RSub(RInt(1), RMul(max_diff_value, diff))

darken_rgb(color, factor) ==
    LET rgb_code == hex_to_rgb(color)
        hls_code == rgb_to_hls(Rat(rgb_code[1], 255), Rat(rgb_code[2], 255),
                               Rat(rgb_code[3], 255))
        new_rgb == hls_to_rgb(hls_code[1], RMul(hls_code[2], factor), hls_code[3])
    IN  rgb_to_hex([j \in 1..3 |-> RTrunc(RMul(new_rgb[j], RInt(255)))])

color_darkener(color, x, w, threshold, max_diff_value) ==
    IF ~re_match_hex(color) THEN Raised("TypeError")
    ELSE IF ~x.isint \/ ~w.isint THEN Raised("TypeError")
    ELSE IF ~threshold.isfloat \/ RLt(RInt(1), threshold.q) THEN Raised("TypeError")
    ELSE IF ~max_diff_value.isfloat \/ RLt(RInt(1), max_diff_value.q)
    THEN Raised("TypeError")
    ELSE IF w.v = 0 THEN Raised("ZeroDivisionError")
    ELSE IF ~RLt(threshold.q, Rat(x.v, w.v)) THEN Returned(color)
    ELSE IF threshold.q = RInt(1) THEN Raised("ZeroDivisionError")
    ELSE IF hex_to_rgb_raises(color) THEN Raised("ValueError")
    ELSE Returned(darken_rgb(color,
                    darken_factor(x.v, w.v, threshold.q, max_diff_value.q)))

(***************************************************************************)
(* ColorPicker                                                             *)
(***************************************************************************)
features == <<"exon", "gene", "intergenic", "centromere", "heterochromatin", "dummy">>

White == <<"#", "F", "F", "F", "F", "F", "F">>

Black == <<"#", "0", "0", "0", "0", "0", "0">>

NoPicker == [built |-> FALSE, color_map |-> <<>>, dark_max |-> NotAFloat,
             dark_threshold |-> NotAFloat, width |-> NotAnInt, count |-> NotAnInt]

\* re.match(r"#[0-9A-F]{6}", hex_color): upper-case digits, first seven characters
re_match_upper_hex(color) ==
    /\ Len(color) >= 7
    /\ color[1] = "#"
    /\ \A i \in 2..7 : \E d \in 1..16 : UpperDigits[d] = color[i]

\* a dark_max / dark_threshold value the constructor accepts
dark_value_ok(val) == val.isfloat /\ RLt(RInt(0), val.q) /\ RLt(val.q, RInt(1))

\* ColorPicker.__init__: colors is [isdict, map]; the result is the picker or the
\* exception raised
ColorPicker(colors, dark_max, dark_threshold, count, w) ==
    IF ~colors.isdict THEN Raised("TypeError")
    ELSE IF ~(Range(features) \subseteq DOMAIN colors.map) THEN Raised("ValueError")
    ELSE IF \E key \in DOMAIN colors.map : ~re_match_upper_hex(colors.map[key])
    THEN Raised("ValueError")
    ELSE IF ~dark_value_ok(dark_max) \/ ~dark_value_ok(dark_threshold)
    THEN Raised("ValueError")
    ELSE IF ~count.isint \/ ~w.isint THEN Raised("ValueError")
    ELSE LET grads == [f \in Range(features) |->
                         linear_gradient(colors.map[f], White, count)]
         IN  IF \E f \in Range(features) : grads[f].raised # NoErr
             THEN Raised("ValueError")
             ELSE Returned([built |-> TRUE,
                            color_map |-> [f \in Range(features) |-> grads[f].value],
                            dark_max |-> dark_max, dark_threshold |-> dark_threshold,
                            width |-> w, count |-> count])

\* the float a GC_ratio cell holds
gc_value(cell) == Rat(cell[1], GcDen)

\* python list indexing: a negative index counts from the end
list_index_raises(lst, i) == i >= Len(lst) \/ i < -Len(lst)

list_get(lst, i) == IF i >= 0 THEN lst[i + 1] ELSE lst[Len(lst) + i + 1]

\* variant: a null gc ratio takes the first colour of the feature's own gradient
map_color_feature_first(cp, feature, gc_content) ==
    IF feature = "dummy" \/ (IsNull(gc_content) /\ feature \in DOMAIN cp.color_map)
    THEN Returned(list_get(cp.color_map[feature], 0))
    ELSE IF IsNull(gc_content)
    THEN Returned(list_get(cp.color_map["heterochromatin"], 0))
    ELSE IF feature \notin DOMAIN cp.color_map THEN Returned(Black)
    ELSE LET i == RTrunc(RMul(gc_value(gc_content), RInt(cp.count.v - 1)))
         IN  IF list_index_raises(cp.color_map[feature], i) THEN Raised("IndexError")
             ELSE Returned(list_get(cp.color_map[feature], i))

\* variant: a feature that is no key of the colour map is an error
map_color_key_error(cp, feature, gc_content) ==
    IF feature = "dummy" THEN Returned(list_get(cp.color_map["dummy"], 0))
    ELSE IF IsNull(gc_content)
    THEN Returned(list_get(cp.color_map["heterochromatin"], 0))
    ELSE IF feature \notin DOMAIN cp.color_map THEN Raised("KeyError")
    ELSE LET i == RTrunc(RMul(gc_value(gc_content), RInt(cp.count.v - 1)))
         IN  IF list_index_raises(cp.color_map[feature], i) THEN Raised("IndexError")
             ELSE Returned(list_get(cp.color_map[feature], i))

map_color(cp, feature, gc_content) ==
    IF feature = "dummy"
    THEN IF list_index_raises(cp.color_map["dummy"], 0) THEN Raised("IndexError")
         ELSE Returned(list_get(cp.color_map["dummy"], 0))
    ELSE IF IsNull(gc_content)
    THEN IF list_index_raises(cp.color_map["heterochromatin"], 0)
         THEN Raised("IndexError")
         ELSE Returned(list_get(cp.color_map["heterochromatin"], 0))
    ELSE IF feature \notin DOMAIN cp.color_map THEN Returned(Black)
    ELSE LET i == RTrunc(RMul(gc_value(gc_content), RInt(cp.count.v - 1)))
         IN  IF list_index_raises(cp.color_map[feature], i) THEN Raised("IndexError")
             ELSE Returned(list_get(cp.color_map[feature], i))

\* variant: the darkening test without the dummy exemption
pick_darkens_dummy_too(cp, row) ==
    RLt(cp.dark_threshold.q, Rat(row.x, cp.width.v))

\* does pick_color take the darkening branch for this row
pick_darkens(cp, row) ==
    /\ row.GENCODE # "dummy"
    /\ RLt(cp.dark_threshold.q, Rat(row.x, cp.width.v))

pick_color(cp, cols, row) ==
    IF ~({"GC_ratio", "GENCODE", "x"} \subseteq cols) THEN Raised("TypeError")
    ELSE LET base == map_color(cp, row.GENCODE, row.GC_ratio)
         IN  IF base.raised # NoErr THEN base
             ELSE IF row.GENCODE # "dummy" /\ cp.width.v = 0
             THEN Raised("ZeroDivisionError")
             ELSE IF pick_darkens(cp, row)
             THEN color_darkener(base.value, IntArg(row.x), cp.width,
                                 cp.dark_threshold, cp.dark_max)
             ELSE base

(***************************************************************************)
(* The drivers: which statement follows the one at `at', for each of the   *)
(* three functions that run the DataIntegrator methods.                    *)
(***************************************************************************)
\* plot_chromosome.integrator_wrapper
integrator_wrapper(dmy, at) ==
    CASE at = "start" -> "new"
      [] at = "new" -> "xy"
      [] at = "xy" -> IF dmy THEN "cen" ELSE "genes"
      [] at = "genes" -> "cen"
      [] at = "cen" -> IF dmy THEN "dummy" ELSE "hetero"
      [] at = "hetero" -> "colors"
      [] at = "dummy" -> "colors"
      [] at = "colors" -> "done"

\* CustomGeneIntegrator.integrate(color_picker)
integrate(at) ==
    CASE at = "new" -> "xy"
      [] at = "xy" -> "genes"
      [] at = "genes" -> "hetero"
      [] at = "hetero" -> "colors"
      [] at = "colors" -> "get_data"
      [] at = "get_data" -> "done"

\* data_integrator.integrate_data, the body of its loop over the chromosomes
integrate_data(dmy, at) ==
    CASE at = "new" -> IF dmy THEN "cen" ELSE "genes"
      [] at = "genes" -> "cen"
      [] at = "cen" -> IF dmy THEN "dummy" ELSE "hetero"
      [] at = "hetero" -> "save_table"
      [] at = "dummy" -> "save_table"
      [] at = "save_table" -> "done"

following(d, dmy, at) ==
    CASE d = "integrate" -> integrate(at)
      [] d = "integrate_data" -> integrate_data(dmy, at)
      [] OTHER -> integrator_wrapper(dmy, at)

\* variant: the integrator of the previous run is used again
DataIntegrator_reused(self, genome_df) == self

\* variant: __genome__ = genome_df, without the copy
DataIntegrator_no_copy(self, genome_df) ==
    [genome |-> genome_df.rows, columns |-> genome_df.columns, width |-> NotAnInt,
     shared |-> TRUE]

\* DataIntegrator.__init__: self.__genome__ = genome_df.copy(); __width__ is not set
DataIntegrator(self, genome_df) ==
    [genome |-> genome_df.rows, columns |-> genome_df.columns, width |-> NotAnInt,
     shared |-> FALSE]

\* a DataFrame object: its rows and its columns
DataFrame(rows, cols) == [rows |-> rows, columns |-> cols]

\* the caller's table after an operation that changed __genome__ in place
in_place(caller_df, is_shared, rows, cols) ==
    IF is_shared THEN DataFrame(rows, cols) ELSE caller_df

(***************************************************************************)
(* The steps of the drivers, one action per call.                          *)
(***************************************************************************)
\* color_picker = ColorPicker(color_map, width=width, dark_threshold=dark_start,
\*                            dark_max=dark_max, count=30)
ColorPickerInit ==
    /\ pc = "start"
    /\ LET r == ColorPicker(cfg_colors, cfg_dark_max, cfg_dark_start, cfg_count, width)
       IN  IF r.raised # NoErr
           THEN /\ pc' = "error"
                /\ err' = r.raised
                /\ UNCHANGED picker
           ELSE /\ pc' = "new"
                /\ picker' = r.value
                /\ UNCHANGED err
    /\ UNCHANGED <<data_vars, input_vars, grad_vars, call_vars, annot_vars, run_vars>>

\* integrator = DataIntegrator(chr_df): copies the table, reads iloc[0]["chr"]
NewIntegrator ==
    /\ pc = "new"
    /\ IF Len(chr_df.rows) = 0
       THEN pc' = "error" /\ err' = "IndexError" /\ UNCHANGED <<data_vars, shared>>
       ELSE \E o \in {DataIntegrator([genome |-> genome, columns |-> columns,
                                      width |-> self_width, shared |-> shared],
                                     chr_df)} :
               /\ genome' = o.genome
               /\ columns' = o.columns
               /\ self_width' = o.width
               /\ shared' = o.shared
               /\ pc' = following(driver, dummy, "new")
               /\ UNCHANGED err
    /\ UNCHANGED <<input_vars, picker, grad_vars, call_vars, annot_vars, driver, steps,
                   chr_df, runs>>

\* integrator.add_xy_coordinates(width): reset_index works in place, assign
\* binds __genome__ to a new table
AddXY ==
    /\ pc = "xy"
    /\ genome' = add_xy_coordinates(genome, width)
    /\ columns' = columns \cup {"x", "y"}
    /\ self_width' = IntArg(used_width(genome, width))
    /\ chr_df' = in_place(chr_df, shared,
                          IF Falsy(width) THEN reset_index(genome) ELSE genome, columns)
    /\ shared' = FALSE
    /\ steps' = Append(steps, "add_xy_coordinates")
    /\ pc' = following(driver, dummy, "xy")
    /\ UNCHANGED <<err, input_vars, picker, grad_vars, call_vars, annot_vars, driver, runs>>

\* integrator.add_genes(GENCODE_df): the merge binds __genome__ to a new table
AddGenes ==
    /\ pc = "genes"
    /\ IF "GENCODE" \in columns
       THEN UNCHANGED <<data_vars, shared>>
       ELSE /\ genome' = add_genes(genome, columns, gencode_df, genome[1].chr)
            /\ columns' = columns \cup {"GENCODE"}
            /\ shared' = FALSE
            /\ UNCHANGED self_width
    /\ steps' = Append(steps, "add_genes")
    /\ pc' = following(driver, dummy, "genes")
    /\ UNCHANGED <<err, input_vars, picker, grad_vars, call_vars, annot_vars, driver,
                   chr_df, runs>>

\* integrator.add_centromere(cyb_df): KeyError when no row has index label 1,
\* ValueError (int(nan)) when the chromosome has no acen band; assigns in place
AddCentromere ==
    /\ pc = "cen"
    /\ IF ~has_label(genome, 1)
       THEN pc' = "error" /\ err' = "KeyError" /\ UNCHANGED <<data_vars, chr_df>>
       ELSE IF acen_bands(cyb_df, label_row(genome, 1).chr) = {}
       THEN pc' = "error" /\ err' = "ValueError" /\ UNCHANGED <<data_vars, chr_df>>
       ELSE /\ genome' = add_centromere(genome, columns, cyb_df)
            /\ columns' = columns \cup {"GENCODE"}
            /\ chr_df' = in_place(chr_df, shared, genome', columns')
            /\ pc' = following(driver, dummy, "cen")
            /\ UNCHANGED <<err, self_width>>
    /\ steps' = Append(steps, "add_centromere")
    /\ UNCHANGED <<input_vars, picker, grad_vars, call_vars, annot_vars, driver, shared,
                   runs>>

\* integrator.assign_hetero(): assigns in place
AssignHetero ==
    /\ pc = "hetero"
    /\ genome' = assign_hetero(genome)
    /\ chr_df' = in_place(chr_df, shared, genome', columns)
    /\ steps' = Append(steps, "assign_hetero")
    /\ pc' = following(driver, dummy, "hetero")
    /\ UNCHANGED <<err, columns, self_width, input_vars, picker, grad_vars, call_vars,
                   annot_vars, driver, shared, runs>>

\* integrator.add_dummy(): DataFrame.assign("GENCODE", "dummy") is a TypeError
\* on the branch where the column is missing; the other branch assigns in place
AddDummy ==
    /\ pc = "dummy"
    /\ IF "GENCODE" \notin columns
       THEN pc' = "error" /\ err' = "TypeError" /\ UNCHANGED <<genome, chr_df>>
       ELSE /\ genome' = add_dummy(genome)
            /\ chr_df' = in_place(chr_df, shared, genome', columns)
            /\ pc' = following(driver, dummy, "dummy")
            /\ UNCHANGED err
    /\ steps' = Append(steps, "add_dummy")
    /\ UNCHANGED <<columns, self_width, input_vars, picker, grad_vars, call_vars,
                   annot_vars, driver, shared, runs>>

\* integrator.add_colors(color_picker): pick_color over the rows, in order; the
\* column is assigned in place
AddColors ==
    /\ pc = "colors"
    /\ \E picked \in {[k \in 1..Len(genome) |->
                          pick_color(picker, columns, genome[k])]} :
          LET failed == {k \in 1..Len(genome) : picked[k].raised # NoErr}
          IN  IF failed # {}
              THEN /\ pc' = "error"
                   /\ err' = picked[Min(failed)].raised
                   /\ UNCHANGED <<data_vars, chr_df>>
              ELSE /\ genome' = [k \in 1..Len(genome) |->
                                   [genome[k] EXCEPT !.color = picked[k].value]]
                   /\ columns' = columns \cup {"color"}
                   /\ chr_df' = in_place(chr_df, shared, genome', columns')
                   /\ pc' = following(driver, dummy, "colors")
                   /\ UNCHANGED <<err, self_width>>
    /\ steps' = Append(steps, "add_colors")
    /\ UNCHANGED <<input_vars, picker, grad_vars, call_vars, annot_vars, driver, shared,
                   runs>>

Next ==
    \/ ColorPickerInit
    \/ NewIntegrator
    \/ AddXY
    \/ AddGenes
    \/ AddCentromere
    \/ AssignHetero
    \/ AddDummy
    \/ AddColors

(***************************************************************************)
(* Inputs: bounded families of chunk tables, feature tables, cytoband      *)
(* tables and configurations.                                              *)
(***************************************************************************)
\* the subsets of S with at most m elements
RECURSIVE UpTo(_, _)
UpTo(S, m) == IF m = 0 THEN {{}}
              ELSE LET T == UpTo(S, m - 1) IN T \cup {t \cup {e} : t \in T, e \in S}

\* the genomic positions of a table of n chunks and the intervals between them
Positions(n) == 0..(n * ChunkSize)

Intervals(n) == {i \in Positions(n) \X Positions(n) : i[1] < i[2]}

Interval(chr, i, type) == [chr |-> chr, start |-> i[1], end |-> i[2], type |-> type]

\* a chunk table of n chunks whose first index label is off
Table(n, off, gcs) == [k \in 1..n |-> Chunk(k, off, gcs[k])]

Tables(Ns, off, Cells) ==
    UNION {{Table(n, off, gcs) : gcs \in [1..n -> Cells]} : n \in Ns}

\* the intervals made of whole chunks
ChunkIntervals(n) ==
    {i \in Intervals(n) : i[1] % ChunkSize = 0 /\ i[2] % ChunkSize = 0}

Whole(n) == <<0, n * ChunkSize>>

\* exons and introns of the table's chromosome
OwnFeatures(I) == {Interval(ThisChr, i, type) : i \in I, type \in {"exon", "intron"}}

\* the same plus an exon of another chromosome
FeatureCandidates(n) ==
    OwnFeatures(Intervals(n)) \cup {Interval(OtherChr, Whole(n), "exon")}

\* centromeric (acen) bands of the table's chromosome
OwnAcen(I) == {Interval(ThisChr, i, "acen") : i \in I}

\* whole-chunk acen bands, a non-centromeric band and a centromeric band of
\* another chromosome
BandCandidates(n) ==
    OwnAcen(ChunkIntervals(n)) \cup {Interval(ThisChr, Whole(n), "gneg"),
                                     Interval(OtherChr, Whole(n), "acen")}

Gray(hi, lo) == <<"#", hi, lo, hi, lo, hi, lo>>

\* the colour schema of the configuration file
DefaultColors ==
    [isdict |-> TRUE,
     map |-> [f \in Range(features) |->
                CASE f = "exon" -> Gray("0", "0")
                  [] f = "gene" -> Gray("3", "3")
                  [] f = "intergenic" -> Gray("6", "6")
                  [] f = "centromere" -> Gray("9", "9")
                  [] f = "heterochromatin" -> Gray("C", "C")
                  [] f = "dummy" -> Gray("8", "0")]]

\* count=30 in integrator_wrapper
DriverCount == 30

Half == FloatArg(Rat(1, 2))

NoGradientCall ==
    /\ grad_start = <<>>
    /\ grad_finish = <<>>
    /\ grad_length = NotAnInt
    /\ grad_out = Returned(<<>>)

NoAnnotator ==
    /\ ga_args = <<>>
    /\ ga = <<>>
    /\ arm = ""
    /\ arm_df = {}
    /\ limit = RInt(0)

NoCall ==
    /\ call_args = <<>>
    /\ call_out = Returned(<<>>)
    /\ call_log = <<>>
    /\ NoAnnotator

\* no driver runs: the functions are called directly
NoRun ==
    /\ driver = ""
    /\ steps = <<>>
    /\ chr_df = <<>>
    /\ shared = FALSE
    /\ runs = <<>>

\* the first run of driver d: the chunk table read from the chromosome file
FirstRun(d) ==
    /\ driver = d
    /\ steps = <<>>
    /\ chr_df = DataFrame(genome, RawColumns)
    /\ shared = FALSE
    /\ runs = <<>>

\* the inputs of a run of integrator_wrapper, drawn from the given families
DriverInputs(Genomes, Widths, Modes) ==
    /\ err = NoErr
    /\ dummy \in Modes
    /\ width \in Widths
    /\ genome \in Genomes
    /\ columns = RawColumns
    /\ self_width = NotAnInt
    /\ cfg_colors = DefaultColors
    /\ cfg_dark_max = Half
    /\ cfg_dark_start = Half
    /\ cfg_count = IntArg(DriverCount)
    /\ picker = NoPicker
    /\ NoGradientCall
    /\ NoCall
    /\ FirstRun("integrator_wrapper")

\* the start of integrator_wrapper
DriverInit(Genomes, Widths, Modes) ==
    /\ pc = "start"
    /\ DriverInputs(Genomes, Widths, Modes)

\* one whole-chunk feature or none and one whole-chunk centromere band: every
\* combination of gene label, centromere membership and missing gc
OneFeature(n) == UpTo(OwnFeatures(ChunkIntervals(n)), 1)

OneAcen(n) == {{b} : b \in OwnAcen(ChunkIntervals(n))}

\* at most one feature with arbitrary end points (or the exon of the other
\* chromosome) and up to MaxFeatures whole-chunk features
ManyFeatures(n) ==
    {A \cup B : A \in UpTo(FeatureCandidates(n), 1),
                B \in UpTo(OwnFeatures(ChunkIntervals(n)), MaxFeatures)}

\* at most one acen band with arbitrary end points and up to MaxBands other
\* bands: whole-chunk acen bands, a gneg band, an acen band of the other chromosome
ManyBands(n) ==
    {A \cup B : A \in UpTo(OwnAcen(Intervals(n)), 1),
                B \in UpTo(BandCandidates(n), MaxBands)}

FirstChunkAcen(n) == {{Interval(ThisChr, <<0, ChunkSize>>, "acen")}}

FirstChunkExon(n) == {{Interval(ThisChr, <<0, ChunkSize>>, "exon")}}

Defined == {Num(2)}

MaybeNull == {NaN, Num(2)}

AnyGc == {NaN} \cup {Num(v) : v \in 0..GcDen}

Width2 == {IntArg(2)}

ValidWidths == {IntArg(w) : w \in 1..MaxWidth}

AnyWidth == {NotAnInt} \cup {IntArg(w) : w \in (-MaxWidth)..MaxWidth}

\* chunk tables whose last two gc ratios vary over Cells
TailTables(Ns, Cells) ==
    UNION {{Table(n, 0, [k \in 1..n |-> IF k = n THEN a ELSE IF k = n - 1 THEN b
                                        ELSE Num(2)]) : a \in Cells, b \in Cells}
           : n \in Ns}

\* runs of integrator_wrapper: classification inputs, widths, gc ratios
Init ==
    \/ /\ DriverInit(Tables(1..MaxChunks, 0, MaybeNull), Width2, {FALSE})
       /\ gencode_df \in OneFeature(Len(genome))
       /\ cyb_df \in OneAcen(Len(genome))
    \/ /\ DriverInit(Tables(1..MaxChunks, 0, MaybeNull), AnyWidth, BOOLEAN)
       /\ gencode_df \in FirstChunkExon(Len(genome))
       /\ cyb_df \in FirstChunkAcen(Len(genome))
    \/ /\ DriverInit(TailTables(1..MaxChunks, AnyGc), ValidWidths, BOOLEAN)
       /\ gencode_df \in FirstChunkExon(Len(genome))
       /\ cyb_df \in FirstChunkAcen(Len(genome))

Spec == Init /\ [][Next]_vars

(***************************************************************************)
(* add_xy_coordinates called on a DataIntegrator of its own: the table may *)
(* be a filtered sub-range (first index label > 0) and the width may be    *)
(* missing.                                                                *)
(***************************************************************************)
InitXY ==
    /\ pc = "xy"
    /\ err = NoErr
    /\ dummy \in BOOLEAN
    /\ width \in AnyWidth
    /\ genome \in UNION {Tables(1..MaxChunks, off, MaybeNull) : off \in 0..MaxOffset}
    /\ columns = RawColumns
    /\ self_width = NotAnInt
    /\ gencode_df = {}
    /\ cyb_df = {}
    /\ cfg_colors = DefaultColors
    /\ cfg_dark_max = Half
    /\ cfg_dark_start = Half
    /\ cfg_count = IntArg(DriverCount)
    /\ picker = NoPicker
    /\ NoGradientCall
    /\ NoCall
    /\ FirstRun("integrator_wrapper")

NextXY == AddXY

SpecXY == InitXY /\ [][NextXY]_vars

(***************************************************************************)
(* The DataIntegrator steps of integrator_wrapper up to add_genes and up   *)
(* to add_centromere, on richer gene and cytoband tables.                  *)
(***************************************************************************)
\* integrator = DataIntegrator(chr_df) has run
IntegratorInit(Genomes, Widths, Modes) ==
    /\ pc = "xy"
    /\ DriverInputs(Genomes, Widths, Modes)

InitGenes ==
    /\ IntegratorInit(Tables(1..MaxChunks, 0, Defined), Width2, {FALSE})
    /\ gencode_df \in ManyFeatures(Len(genome))
    /\ cyb_df \in FirstChunkAcen(Len(genome))

NextGenes == AddXY \/ AddGenes

SpecGenes == InitGenes /\ [][NextGenes]_vars

InitCentromere ==
    /\ IntegratorInit(Tables(2..MaxChunks, 0, Defined), Width2, BOOLEAN)
    /\ gencode_df \in FirstChunkExon(Len(genome))
    /\ cyb_df \in ManyBands(Len(genome))

NextCentromere == AddXY \/ AddGenes \/ AddCentromere

SpecCentromere == InitCentromere /\ [][NextCentromere]_vars

(***************************************************************************)
(* A call of linear_gradient.                                              *)
(***************************************************************************)
GradientColours ==
    {<<"#", "0", "0", "0", "0", "0", "0">>,
     <<"#", "F", "F", "F", "F", "F", "F">>,
     <<"#", "0", "A", "6", "4", "c", "8">>,
     <<"#", "f", "f", "0", "3", "1", "0">>}

\* '#cica', the malformed colour of the unit test
BadColour == <<"#", "c", "i", "c", "a">>

GradientLengths == {NotAnInt} \cup {IntArg(n) : n \in (-1)..MaxLength}

InitGradient ==
    /\ pc = "gradient"
    /\ err = NoErr
    /\ dummy = FALSE
    /\ width = NotAnInt
    /\ genome = <<>>
    /\ columns = {}
    /\ self_width = NotAnInt
    /\ gencode_df = {}
    /\ cyb_df = {}
    /\ cfg_colors = DefaultColors
    /\ cfg_dark_max = Half
    /\ cfg_dark_start = Half
    /\ cfg_count = IntArg(DriverCount)
    /\ picker = NoPicker
    /\ grad_start \in GradientColours \cup {BadColour}
    /\ grad_finish \in GradientColours \cup {BadColour}
    /\ grad_length \in GradientLengths
    /\ grad_out = Returned(<<>>)
    /\ NoCall
    /\ NoRun

LinearGradientCall ==
    /\ pc = "gradient"
    /\ grad_out' = linear_gradient(grad_start, grad_finish, grad_length)
    /\ err' = grad_out'.raised
    /\ pc' = IF grad_out'.raised = NoErr THEN "returned" ELSE "error"
    /\ UNCHANGED <<data_vars, input_vars, run_vars, picker, grad_start, grad_finish, grad_length,
                   call_vars, annot_vars>>

NextGradient == LinearGradientCall

SpecGradient == InitGradient /\ [][NextGradient]_vars

(***************************************************************************)
(* Direct calls of ColorPicker.map_color and ColorPicker.pick_color on a   *)
(* picker built from the colour schema of the configuration file.          *)
(***************************************************************************)
\* the six features of the schema and 'cicaful', the unknown one of the unit test
CallFeatures == Range(features) \cup {"cicaful"}

\* gc ratios of a call: undefined, from 0 to 1, and one step outside on each side
CallGc == {NaN} \cup {Num(v) : v \in (-1)..(GcDen + 1)}

\* the pandas Series handed to pick_color
Series(gc, feature, x) == [GC_ratio |-> gc, GENCODE |-> feature, x |-> x]

\* a Series without its x field
SeriesNoX(gc, feature) == [GC_ratio |-> gc, GENCODE |-> feature]

InitPick ==
    /\ err = NoErr
    /\ dummy = FALSE
    /\ width \in ValidWidths
    /\ genome = <<>>
    /\ columns = {}
    /\ self_width = NotAnInt
    /\ gencode_df = {}
    /\ cyb_df = {}
    /\ cfg_colors = DefaultColors
    /\ cfg_dark_max = Half
    /\ cfg_dark_start = Half
    /\ cfg_count = IntArg(DriverCount)
    /\ picker = ColorPicker(cfg_colors, cfg_dark_max, cfg_dark_start, cfg_count, width).value
    /\ NoGradientCall
    /\ call_out = Returned(<<>>)
    /\ call_log = <<>>
    /\ NoAnnotator
    /\ \/ /\ pc = "map_color"
          /\ call_args \in {[feature |-> f, gc_content |-> g] :
                               f \in CallFeatures, g \in CallGc}
       \/ /\ pc = "pick_color"
          /\ call_args \in {[row |-> Series(g, f, x)] :
                               f \in CallFeatures, g \in CallGc, x \in 0..(width.v - 1)}
                           \cup {[row |-> SeriesNoX(NaN, "exon")]}
    /\ NoRun

\* color_picker.map_color(feature, gc_content)
MapColorCall ==
    /\ pc = "map_color"
    /\ call_out' = map_color(picker, call_args.feature, call_args.gc_content)
    /\ err' = call_out'.raised
    /\ pc' = IF call_out'.raised = NoErr THEN "returned" ELSE "error"
    /\ UNCHANGED <<data_vars, input_vars, run_vars, picker, grad_vars, call_args, call_log,
                   annot_vars>>

\* color_picker.pick_color(row)
PickColorCall ==
    /\ pc = "pick_color"
    /\ call_out' = pick_color(picker, DOMAIN call_args.row, call_args.row)
    /\ err' = call_out'.raised
    /\ pc' = IF call_out'.raised = NoErr THEN "returned" ELSE "error"
    /\ UNCHANGED <<data_vars, input_vars, run_vars, picker, grad_vars, call_args, call_log,
                   annot_vars>>

NextPick == MapColorCall \/ PickColorCall

SpecPick == InitPick /\ [][NextPick]_vars

(***************************************************************************)
(* color_darkener called for the columns 0, 1, ... of a row with the same  *)
(* colour, width, threshold and max_diff_value; an exception ends the sweep.*)
(***************************************************************************)
\* '#DDDDDD' of the unit test and a saturated colour in mixed case
DarkenerColours ==
    {<<"#", "D", "D", "D", "D", "D", "D">>,
     <<"#", "1", "0", "F", "f", "8", "0">>}

\* 'cicaful' of the unit test and a colour followed by two more digits
BadDarkenerColours ==
    {<<"c", "i", "c", "a", "f", "u", "l">>,
     <<"#", "D", "D", "D", "D", "D", "D", "F", "F">>}

\* 'pocok' and the integers from -1 to MaxWidth
DarkenerWidths == {NotAnInt} \cup {IntArg(w) : w \in (-1)..MaxWidth}

\* 'pocok', 0.5, 1.0 and 3.0
DarkenerThresholds == {NotAFloat, Half, FloatArg(RInt(1)), FloatArg(RInt(3))}

\* 1232 (an int), 0.5, 0.9 and 1.0
DarkenerMaxDiffs == {NotAFloat, Half, FloatArg(Rat(9, 10)), FloatArg(RInt(1))}

InitDarkener ==
    /\ pc = "color_darkener"
    /\ err = NoErr
    /\ dummy = FALSE
    /\ width = NotAnInt
    /\ genome = <<>>
    /\ columns = {}
    /\ self_width = NotAnInt
    /\ gencode_df = {}
    /\ cyb_df = {}
    /\ cfg_colors = DefaultColors
    /\ cfg_dark_max = Half
    /\ cfg_dark_start = Half
    /\ cfg_count = IntArg(DriverCount)
    /\ picker = NoPicker
    /\ NoGradientCall
    /\ call_args \in {[color |-> c, x |-> IntArg(0), width |-> w, threshold |-> t,
                        max_diff_value |-> m] :
                          c \in DarkenerColours \cup BadDarkenerColours,
                          w \in DarkenerWidths, t \in DarkenerThresholds,
                          m \in DarkenerMaxDiffs}
    /\ call_out = Returned(<<>>)
    /\ call_log = <<>>
    /\ NoAnnotator
    /\ NoRun

\* color_darkener(color, x, width, threshold, max_diff_value), then the next column
ColorDarkenerCall ==
    /\ pc = "color_darkener"
    /\ call_out' = color_darkener(call_args.color, call_args.x, call_args.width,
                                  call_args.threshold, call_args.max_diff_value)
    /\ call_log' = Append(call_log, call_out')
    /\ err' = call_out'.raised
    /\ IF call_out'.raised # NoErr
       THEN pc' = "error" /\ UNCHANGED call_args
       ELSE IF call_args.x.v = MaxColumn
       THEN pc' = "swept" /\ UNCHANGED call_args
       ELSE pc' = pc /\ call_args' = [call_args EXCEPT !.x = IntArg(call_args.x.v + 1)]
    /\ UNCHANGED <<data_vars, input_vars, run_vars, picker, grad_vars, annot_vars>>

NextDarkener == ColorDarkenerCall

SpecDarkener == InitDarkener /\ [][NextDarkener]_vars

(***************************************************************************)
(* The construction of a ColorPicker from arbitrary arguments.             *)
(***************************************************************************)
\* 'Pocok' in place of the dictionary
NotADict == [isdict |-> FALSE, map |-> <<>>]

\* the schema with one value replaced
WithColour(f, color) == [DefaultColors EXCEPT !.map[f] = color]

\* the schema without its dummy key
MissingKey ==
    [isdict |-> TRUE,
     map |-> [f \in Range(features) \ {"dummy"} |-> DefaultColors.map[f]]]

\* the schema, 'Pocok', a schema without dummy, and schemas whose exon colour is
\* 'cica', '#00000g' or '#000000FF'
PickerColors ==
    {DefaultColors, NotADict, MissingKey,
     WithColour("exon", <<"c", "i", "c", "a">>),
     WithColour("exon", <<"#", "0", "0", "0", "0", "0", "g">>),
     WithColour("exon", <<"#", "0", "0", "0", "0", "0", "0", "F", "F">>)}

\* 'aaaa', 0.0, 0.5, 1.0 and 12.0
PickerDarkValues ==
    {NotAFloat, FloatArg(RInt(0)), Half, FloatArg(RInt(1)), FloatArg(RInt(12))}

\* 'pocok', the lengths of GradientLengths and the driver's count
PickerCounts == GradientLengths \cup {IntArg(DriverCount)}

InitPicker ==
    /\ pc = "start"
    /\ err = NoErr
    /\ dummy = FALSE
    /\ width \in AnyWidth
    /\ genome = <<>>
    /\ columns = {}
    /\ self_width = NotAnInt
    /\ gencode_df = {}
    /\ cyb_df = {}
    /\ cfg_colors \in PickerColors
    /\ cfg_dark_max \in PickerDarkValues
    /\ cfg_dark_start \in PickerDarkValues
    /\ cfg_count \in PickerCounts
    /\ picker = NoPicker
    /\ NoGradientCall
    /\ NoCall
    /\ NoRun

NextPicker == ColorPickerInit

SpecPicker == InitPicker /\ [][NextPicker]_vars

(***************************************************************************)
(* GeneAnnotator: the layout of the gene labels along the two arms.        *)
(* Pixel coordinates are exact rationals; gene_annot is the sequence of    *)
(* the SVG elements appended so far.                                       *)
(***************************************************************************)
\* PositionConverter.convert
convert(w, chunkSize, pixel, position) ==
    RMul(Rat(position, w * chunkSize), RInt(pixel))

\* GeneAnnotator.__init__; the rows of the file are those of every chromosome
GeneAnnotator_all_chromosomes(args) ==
    [df |-> args.gene_file,
     chunkSize |-> args.chunk_size,
     pixel |-> args.pixel,
     svg_top |-> RInt(0),
     svg_bottom |-> RInt(args.height),
     width |-> args.width,
     fontSize |-> args.pixel * 10,
     centromerePosition |-> args.centromerePosition,
     chromosome |-> args.chromosome,
     gene_annot |-> <<>>]

\* GeneAnnotator.__init__
GeneAnnotator(args) ==
    [df |-> {r \in args.gene_file : r.chr = args.chromosome},
     chunkSize |-> args.chunk_size,
     pixel |-> args.pixel,
     svg_top |-> RInt(0),
     svg_bottom |-> RInt(args.height),
     width |-> args.width,
     fontSize |-> args.pixel * 10,
     centromerePosition |-> args.centromerePosition,
     chromosome |-> args.chromosome,
     gene_annot |-> <<>>]

\* variant: a label always at the natural position of its gene
text_position_natural(a, lim, pos) == pos

\* variant: a displaced label exactly at the limit
text_position_at_limit(a, lim, pos) ==
    IF a = "p" THEN (IF RLe(lim, pos) THEN lim ELSE pos)
    ELSE (IF RLt(pos, lim) THEN lim ELSE pos)

\* variant: on the p-arm a gene exactly at the limit keeps its natural position
text_position_tie_natural(a, lim, pos) ==
    IF a = "p" THEN (IF RLt(lim, pos) THEN RSub(lim, RInt(10)) ELSE pos)
    ELSE (IF RLt(pos, lim) THEN RAdd(lim, RInt(10)) ELSE pos)

\* text_pos of one iteration of genes_on_chromosome_arms
text_position(a, lim, pos) ==
    IF a = "p" THEN (IF RLe(lim, pos) THEN RSub(lim, RInt(10)) ELSE pos)
    ELSE (IF RLt(pos, lim) THEN RAdd(lim, RInt(10)) ELSE pos)

\* the limit one iteration leaves
next_limit(a, text_pos, font_size) ==
    IF a = "p" THEN RSub(RSub(text_pos, RInt(font_size)), RInt(10))
    ELSE RAdd(RAdd(text_pos, RInt(font_size)), RInt(10))

segment(x1, x2, y1, y2) == [tag |-> "line", x1 |-> x1, x2 |-> x2, y1 |-> y1, y2 |-> y2]

text(x, y, font_size, font_color, gene_name) ==
    [tag |-> "text", x |-> x, y |-> y, font_size |-> font_size,
     font_color |-> font_color, gene_name |-> gene_name]

\* variant: the top of the drawing stays where the constructor put it
update_svg_top_never(svg_top, lim, font_size) == svg_top

\* if limit - 50 < self.__svg_top: self.__svg_top = limit - font_size - 50
update_svg_top(svg_top, lim, font_size) ==
    IF RLt(RSub(lim, RInt(50)), svg_top)
    THEN RSub(RSub(lim, RInt(font_size)), RInt(50))
    ELSE svg_top

\* if limit + 50 > self.__svg_bottom: self.__svg_bottom = limit + font_size + 50
update_svg_bottom(svg_bottom, lim, font_size) ==
    IF RLt(svg_bottom, RAdd(lim, RInt(50)))
    THEN RAdd(RAdd(lim, RInt(font_size)), RInt(50))
    ELSE svg_bottom

\* one iteration of the loop of genes_on_chromosome_arms: the annotator and the
\* limit it leaves
annotate_row(g, a, lim, row) ==
    LET pos == convert(g.width, g.chunkSize, g.pixel, row.start)
        text_pos == text_position(a, lim, pos)
        new_limit == next_limit(a, text_pos, g.fontSize)
        top == update_svg_top(g.svg_top, new_limit, g.fontSize)
        bottom == update_svg_bottom(g.svg_bottom, new_limit, g.fontSize)
    IN  [ga |-> [g EXCEPT !.svg_top = top,
                          !.svg_bottom = bottom,
                          !.gene_annot = g.gene_annot \o
                              <<segment(0, 100, pos, pos),
                                segment(100, 200, pos, text_pos),
                                segment(200, 300, text_pos, text_pos),
                                text(200, RSub(text_pos, RInt(10)), g.fontSize, "black",
                                     row.name)>>],
         limit |-> new_limit]

\* variant: a gene that starts at the centromere goes to the q-arm
arm_rows_centromere_on_q(g, a) ==
    IF a = "p" THEN {r \in g.df : r.start < g.centromerePosition}
    ELSE {r \in g.df : r.start >= g.centromerePosition}

\* the rows of the p-arm and of the q-arm
arm_rows(g, a) ==
    IF a = "p" THEN {r \in g.df : r.start <= g.centromerePosition}
    ELSE {r \in g.df : r.start > g.centromerePosition}

\* the rows sort_values puts first among those left: the largest start on the
\* p-arm, the smallest on the q-arm (rows of equal start in either order)
first_rows(df, a) ==
    IF a = "p" THEN {r \in df : \A o \in df : o.start <= r.start}
    ELSE {r \in df : \A o \in df : o.start >= r.start}

get_annotation(g) == g.gene_annot

get_dimensions(g) == <<g.svg_top, g.svg_bottom>>

\* gene starts and centromere positions: the multiples of GeneStep up to MaxStart
GeneStep == 20

GeneStarts == {k * GeneStep : k \in 0..MaxStart}

GeneNames == [i \in 1..MaxGenes |-> <<"g", i>>]

Gene(chr, start, name) == [chr |-> chr, start |-> start, name |-> name]

\* the starts of n genes in file order, here ascending
StartLists(n) ==
    {h \in [1..n -> GeneStarts] : \A i \in 1..n, j \in 1..n : i < j => h[i] <= h[j]}

\* gene files: up to MaxGenes genes of the chromosome, the i-th named g_i; the
\* files of at most one such gene also with a gene of another chromosome
GeneFiles ==
    UNION {{{Gene(ThisChr, f[i], GeneNames[i]) : i \in 1..n} \cup other :
               f \in StartLists(n),
               other \in IF n <= 1 THEN {{}, {Gene(OtherChr, GeneStep, <<"g", 0>>)}}
                                   ELSE {{}}}
           : n \in 0..MaxGenes}

\* pixel sizes
Pixels == {1, 2}

\* the pixel height of the chromosome
Height == 100

InitAnnotator ==
    /\ pc = "GeneAnnotator"
    /\ err = NoErr
    /\ dummy = FALSE
    /\ width = NotAnInt
    /\ genome = <<>>
    /\ columns = {}
    /\ self_width = NotAnInt
    /\ gencode_df = {}
    /\ cyb_df = {}
    /\ cfg_colors = DefaultColors
    /\ cfg_dark_max = Half
    /\ cfg_dark_start = Half
    /\ cfg_count = IntArg(DriverCount)
    /\ picker = NoPicker
    /\ NoGradientCall
    /\ call_args = <<>>
    /\ call_out = Returned(<<>>)
    /\ call_log = <<>>
    /\ ga_args \in {[gene_file |-> file, centromerePosition |-> c, chromosome |-> ThisChr,
                      chunk_size |-> ChunkSize, pixel |-> px, height |-> Height,
                      width |-> 1] :
                        file \in GeneFiles, c \in GeneStarts, px \in Pixels}
    /\ ga = <<>>
    /\ arm = ""
    /\ arm_df = {}
    /\ limit = RInt(0)
    /\ NoRun

\* gene_annotator = GeneAnnotator(gene_file, centromerePosition, chromosome, ...)
NewGeneAnnotator ==
    /\ pc = "GeneAnnotator"
    /\ ga' = GeneAnnotator(ga_args)
    /\ pc' = "generate_gene_annotation"
    /\ UNCHANGED <<err, data_vars, input_vars, run_vars, picker, grad_vars, call_vars, ga_args,
                   arm, arm_df, limit>>

\* generate_gene_annotation up to the first iteration of the p-arm call
GenerateGeneAnnotation ==
    /\ pc = "generate_gene_annotation"
    /\ ga' = [ga EXCEPT !.gene_annot = <<>>]
    /\ arm' = "p"
    /\ arm_df' = arm_rows(ga, "p")
    /\ limit' = convert(ga.width, ga.chunkSize, ga.pixel, ga.centromerePosition)
    /\ pc' = "genes_on_chromosome_arms"
    /\ UNCHANGED <<err, data_vars, input_vars, run_vars, picker, grad_vars, call_vars, ga_args>>

\* one iteration of the loop of genes_on_chromosome_arms
AnnotateRow ==
    /\ pc = "genes_on_chromosome_arms"
    /\ arm_df # {}
    /\ \E row \in first_rows(arm_df, arm) :
          \E r \in {annotate_row(ga, arm, limit, row)} :
              /\ ga' = r.ga
              /\ limit' = r.limit
              /\ arm_df' = arm_df \ {row}
    /\ UNCHANGED <<pc, err, data_vars, input_vars, run_vars, picker, grad_vars, call_vars, ga_args,
                   arm>>

\* the end of the loop: the p-arm call returns and the q-arm call starts, or the
\* q-arm call and generate_gene_annotation return
ArmReturn ==
    /\ pc = "genes_on_chromosome_arms"
    /\ arm_df = {}
    /\ IF arm = "p"
       THEN /\ arm' = "q"
            /\ arm_df' = arm_rows(ga, "q")
            /\ limit' = convert(ga.width, ga.chunkSize, ga.pixel, ga.centromerePosition)
            /\ UNCHANGED pc
       ELSE /\ pc' = "annotated"
            /\ UNCHANGED <<arm, arm_df, limit>>
    /\ UNCHANGED <<err, data_vars, input_vars, run_vars, picker, grad_vars, call_vars, ga_args, ga>>

NextAnnotator == NewGeneAnnotator \/ GenerateGeneAnnotation \/ AnnotateRow \/ ArmReturn

SpecAnnotator == InitAnnotator /\ [][NextAnnotator]_vars

(***************************************************************************)
(* The runs of integrator_wrapper together with the direct calls: where    *)
(* the missing-data fallbacks are met.                                     *)
(***************************************************************************)
InitMissing == Init \/ InitPick

NextMissing == Next \/ NextPick

SpecMissing == InitMissing /\ [][NextMissing]_vars

(***************************************************************************)
(* The three drivers, each run up to MaxRuns + 1 times in one process: on  *)
(* the same chromosome again or on another one.  integrate receives its    *)
(* ColorPicker from the caller and its chunk table may be a filtered       *)
(* sub-range; integrate_data neither assigns coordinates nor colours.      *)
(***************************************************************************)
MaxRuns == 2

\* self.integrated_data of CustomGeneIntegrator.integrate: x and y shifted to
\* start at 0, index reset
integrated_data(g) ==
    LET min_x == Min({g[k].x : k \in 1..Len(g)})
        min_y == Min({g[k].y : k \in 1..Len(g)})
    IN  [k \in 1..Len(g) |->
            [g[k] EXCEPT !.x = @ - min_x, !.y = @ - min_y, !.index = k - 1]]

\* DataIntegrator.save_table: to_csv(index=False), the index labels are not written
save_table(g) == reset_index(g)

\* the chunk table of the other chromosome: the same chunks, the other name
other_chromosome(df) ==
    DataFrame([k \in 1..Len(df.rows) |->
                  [df.rows[k] EXCEPT !.chr = IF @ = ThisChr THEN OtherChr ELSE ThisChr]],
              df.columns)

\* the table a run of the driver produced
run_result == IF driver = "integrator_wrapper" THEN genome ELSE call_out.value

\* a gene of each chromosome and a centromere of each chromosome, on chunks 1 and 2
GenomeFeatures ==
    {Interval(ThisChr, <<ChunkSize, 2 * ChunkSize>>, "exon"),
     Interval(OtherChr, <<0, ChunkSize>>, "intron")}

GenomeBands ==
    {Interval(ThisChr, <<0, ChunkSize>>, "acen"),
     Interval(OtherChr, <<ChunkSize, 2 * ChunkSize>>, "acen")}

DriverTables(off) == Tables(2..MaxChunks, off, MaybeNull)

InitDrivers ==
    /\ err = NoErr
    /\ columns = RawColumns
    /\ self_width = NotAnInt
    /\ gencode_df = GenomeFeatures
    /\ cyb_df = GenomeBands
    /\ cfg_colors = DefaultColors
    /\ cfg_dark_max = Half
    /\ cfg_dark_start = Half
    /\ cfg_count = IntArg(DriverCount)
    /\ NoGradientCall
    /\ NoCall
    /\ \/ /\ pc = "start"
          /\ dummy \in BOOLEAN
          /\ width = IntArg(2)
          /\ genome \in DriverTables(0)
          /\ picker = NoPicker
          /\ FirstRun("integrator_wrapper")
       \/ /\ pc = "new"
          /\ dummy = FALSE
          /\ width \in ValidWidths
          /\ genome \in UNION {DriverTables(off) : off \in 0..MaxOffset}
          /\ picker = ColorPicker(cfg_colors, cfg_dark_max, cfg_dark_start, cfg_count,
                                  width).value
          /\ FirstRun("integrate")
       \/ /\ pc = "new"
          /\ dummy \in BOOLEAN
          /\ width = NotAnInt
          /\ genome \in DriverTables(0)
          /\ picker = NoPicker
          /\ FirstRun("integrate_data")

\* integrate: integrated_data = integrator.get_data(); self.integrated_data = ...
GetIntegratedData ==
    /\ pc = "get_data"
    /\ call_out' = Returned(integrated_data(genome))
    /\ pc' = following(driver, dummy, "get_data")
    /\ UNCHANGED <<err, data_vars, input_vars, picker, grad_vars, call_args, call_log,
                   annot_vars, run_vars>>

\* integrate_data: integrator.save_table(...)
SaveTable ==
    /\ pc = "save_table"
    /\ call_out' = Returned(save_table(genome))
    /\ pc' = following(driver, dummy, "save_table")
    /\ UNCHANGED <<err, data_vars, input_vars, picker, grad_vars, call_args, call_log,
                   annot_vars, run_vars>>

\* the driver is entered again: the next chromosome of the loop of
\* integrate_data, the next call of integrator_wrapper or of integrate.  The
\* table is the one of an earlier run or the other chromosome's; the
\* ColorPicker of integrate is the caller's, the same as before.
NextChromosome ==
    /\ pc = "done"
    /\ Len(runs) < MaxRuns
    /\ runs' = Append(runs, [input |-> chr_df, output |-> run_result])
    /\ chr_df' \in {chr_df, other_chromosome(chr_df)}
    /\ steps' = <<>>
    /\ pc' = IF driver = "integrator_wrapper" THEN "start" ELSE "new"
    /\ UNCHANGED <<err, data_vars, input_vars, picker, grad_vars, call_vars, annot_vars,
                   driver, shared>>

NextDrivers == Next \/ GetIntegratedData \/ SaveTable \/ NextChromosome

SpecDrivers == InitDrivers /\ [][NextDrivers]_vars

(***************************************************************************)
(* FetchGencode: the choice of the canonical transcript of a gene and the  *)
(* exon / intron structure of a transcript, called directly.  A transcript *)
(* table is a sequence of rows (ccdsid and havana_transcript are NaN when  *)
(* absent), an exon table a set of rows that sort_values puts in order.    *)
(***************************************************************************)
MaxTranscripts == 3

MaxCds == 2

MaxExons == 2

MaxPos == 5

\* transcripts.loc[longest_CDS == transcripts.cds_length].transcript_id.tolist()[0]:
\* the maximum is taken over the rows of the branch, the match over all rows
first_of_longest(transcripts, pool) ==
    LET longest_CDS == Max({transcripts[i].cds_length : i \in pool})
    IN  Min({i \in DOMAIN transcripts : transcripts[i].cds_length = longest_CDS})

\* FetchGencode.get_canonical_transcript; on an empty table tolist()[0] raises
get_canonical_transcript(transcripts) ==
    LET ccds == {i \in DOMAIN transcripts : ~IsNull(transcripts[i].ccdsid)}
        havana == {i \in DOMAIN transcripts : ~IsNull(transcripts[i].havana_transcript)}
        pool == IF ccds # {} THEN ccds
                ELSE IF havana # {} THEN havana
                ELSE DOMAIN transcripts
    IN  IF Len(transcripts) = 0 THEN Raised("IndexError")
        ELSE Returned(transcripts[first_of_longest(transcripts, pool)].transcript_id)

feature(start, end, type) == [start |-> start, end |-> end, type |-> type]

\* variant: an intron is written before every exon
leading_intron_always(start, es) == <<feature(start, es, "intron")>>

\* if es > start: new_features.append({"start": start, "end": es, "type": "intron"})
leading_intron(start, es) ==
    IF es > start THEN <<feature(start, es, "intron")>> ELSE <<>>

\* the loop over the sorted exons and the final intron
RECURSIVE new_features(_, _, _)
new_features(sorted, start, end) ==
    IF sorted = <<>>
    THEN (IF start < end THEN <<feature(start, end, "intron")>> ELSE <<>>)
    ELSE leading_intron(start, Head(sorted).start)
         \o <<feature(Head(sorted).start, Head(sorted).end, "exon")>>
         \o new_features(Tail(sorted), Head(sorted).end, end)

\* exons[["start", "end"]].sort_values(by="start"): the orders of the rows with
\* ascending start (rows of equal start in either order)
sort_values(exons) ==
    {o \in [1..Cardinality(exons) -> exons] :
        /\ \A i \in DOMAIN o, j \in DOMAIN o : i < j => o[i] # o[j]
        /\ \A i \in DOMAIN o, j \in DOMAIN o : i < j => o[i].start <= o[j].start}

\* FetchGencode.generate_exon_intron_structure on the exons in sorted order;
\* exons.chr.tolist()[0] raises on an empty exon table
generate_exon_intron_structure(start, end, sorted) ==
    IF sorted = <<>> THEN Raised("IndexError")
    ELSE Returned(new_features(sorted, start, end))

Transcript(i, ccdsid, havana_transcript, cds_length) ==
    [transcript_id |-> <<"t", i>>, ccdsid |-> ccdsid,
     havana_transcript |-> havana_transcript, cds_length |-> cds_length]

\* what a transcript row carries: ccdsid, havana_transcript, cds_length
TranscriptRows == {NaN, Num(1)} \X {NaN, Num(1)} \X (0..MaxCds)

\* the transcript tables of n rows
TranscriptTables(n) ==
    {[i \in 1..n |-> Transcript(i, k[i][1], k[i][2], k[i][3])] : k \in [1..n -> TranscriptRows]}

\* exons with start <= end anywhere in 0..MaxPos, overlapping ones included
Exons == {e \in [start : 0..MaxPos, end : 0..MaxPos] : e.start <= e.end}

ExonTables == UpTo(Exons, MaxExons)

InitGencode ==
    /\ err = NoErr
    /\ dummy = FALSE
    /\ width = NotAnInt
    /\ genome = <<>>
    /\ columns = {}
    /\ self_width = NotAnInt
    /\ gencode_df = {}
    /\ cyb_df = {}
    /\ cfg_colors = DefaultColors
    /\ cfg_dark_max = Half
    /\ cfg_dark_start = Half
    /\ cfg_count = IntArg(DriverCount)
    /\ picker = NoPicker
    /\ NoGradientCall
    /\ call_out = Returned(<<>>)
    /\ call_log = <<>>
    /\ NoAnnotator
    /\ NoRun
    /\ \/ /\ pc = "get_canonical_transcript"
          /\ \E n \in 0..MaxTranscripts :
                call_args \in {[transcripts |-> t] : t \in TranscriptTables(n)}
       \/ /\ pc = "generate_exon_intron_structure"
          /\ call_args \in {[start |-> a, end |-> b, exons |-> e] :
                               a \in 0..MaxPos, b \in 0..MaxPos, e \in ExonTables}

\* FetchGencode.get_canonical_transcript(transcripts)
GetCanonicalTranscriptCall ==
    /\ pc = "get_canonical_transcript"
    /\ call_out' = get_canonical_transcript(call_args.transcripts)
    /\ err' = call_out'.raised
    /\ pc' = IF call_out'.raised = NoErr THEN "returned" ELSE "error"
    /\ UNCHANGED <<data_vars, input_vars, run_vars, picker, grad_vars, call_args, call_log,
                   annot_vars>>

\* FetchGencode.generate_exon_intron_structure(gene_id, transcript_id, start, end, exons)
GenerateExonIntronStructureCall ==
    /\ pc = "generate_exon_intron_structure"
    /\ \E sorted \in sort_values(call_args.exons) :
          call_out' = generate_exon_intron_structure(call_args.start, call_args.end, sorted)
    /\ err' = call_out'.raised
    /\ pc' = IF call_out'.raised = NoErr THEN "returned" ELSE "error"
    /\ UNCHANGED <<data_vars, input_vars, run_vars, picker, grad_vars, call_args, call_log,
                   annot_vars>>

NextGencode == GetCanonicalTranscriptCall \/ GenerateExonIntronStructureCall

SpecGencode == InitGencode /\ [][NextGencode]_vars

(***************************************************************************)
(* Properties.  The expected labels are stated directly on the input       *)
(* tables gencode_df and cyb_df, which no step modifies.                   *)
(***************************************************************************)
Rows == 1..Len(genome)

\* the features of the chunk's chromosome that share at least one base with it
Overlapping(c) ==
    {f \in gencode_df : f.chr = c.chr /\ f.start < c.end /\ f.end > c.start}

GenePassLabel(c) ==
    IF \E f \in Overlapping(c) : f.type = "exon" THEN "exon"
    ELSE IF Overlapping(c) # {} THEN "gene"
    ELSE "intergenic"

Acen(c) == {b \in cyb_df : b.chr = c.chr /\ b.type = "acen"}

\* c.end > min start and c.start < max end over the acen bands
InSpan(c) ==
    /\ \E b \in Acen(c) : c.end > b.start
    /\ \E b \in Acen(c) : c.start < b.end

\* C1: once add_genes, add_centromere and assign_hetero have run in that order,
\* a chunk is heterochromatin when its gc ratio is undefined, else centromere
\* when it overlaps the centromere span, else it keeps the label of the gene pass.
C1_FinalLabel ==
    (pc \in {"colors", "done"} /\ ~dummy) =>
        \A k \in Rows :
            genome[k].GENCODE =
                IF IsNull(genome[k].GC_ratio) THEN "heterochromatin"
                ELSE IF InSpan(genome[k]) THEN "centromere"
                ELSE GenePassLabel(genome[k])

C1_Witness ==
    /\ pc = "done"
    /\ ~dummy
    /\ \E k \in Rows : /\ IsNull(genome[k].GC_ratio)
                       /\ InSpan(genome[k])
                       /\ genome[k].GENCODE = "heterochromatin"
    /\ \E k \in Rows : /\ ~IsNull(genome[k].GC_ratio)
                       /\ InSpan(genome[k])
                       /\ Overlapping(genome[k]) # {}
                       /\ genome[k].GENCODE = "centromere"

C3_Centromere ==
    [][(pc = "cen" /\ pc' \in {"hetero", "dummy"}) =>
          /\ Len(genome') = Len(genome)
          /\ \A k \in Rows :
                LET c == genome[k]
                    span_start == Min({b.start : b \in Acen(c)})
                    span_end == Max({b.end : b \in Acen(c)})
                IN  genome'[k].GENCODE =
                        IF c.end > span_start /\ c.start < span_end THEN "centromere"
                        ELSE IF "GENCODE" \in columns THEN c.GENCODE
                        ELSE NoLabel]_vars

C3_Witness ==
    /\ pc = "hetero"
    /\ \E k \in Rows : Cardinality(Acen(genome[k])) >= 2
    /\ \E k \in Rows : genome[k].GENCODE = "centromere" /\ GenePassLabel(genome[k]) = "exon"
    /\ \E k \in Rows : genome[k].GENCODE # "centromere"

\* C4: with a width >= 1 the chunk of index i gets column i mod width and row
\* floor(i / width): row * width + column = i, 0 <= column < width, a larger
\* index never has a smaller row and has a larger column within the same row.
C4_Coordinates ==
    ("x" \in columns /\ width.isint /\ width.v >= 1) =>
        \A k \in Rows :
            LET c == genome[k]
                w == width.v
            IN  /\ c.x = c.index % w
                /\ c.y = c.index \div w
                /\ c.y * w + c.x = c.index
                /\ 0 <= c.x /\ c.x < w
                /\ \A j \in Rows :
                      genome[j].index > c.index =>
                          /\ genome[j].y >= c.y
                          /\ genome[j].y = c.y => genome[j].x > c.x

C4_Witness ==
    /\ "x" \in columns
    /\ width = IntArg(2)
    /\ Len(genome) = 3
    /\ genome[1].index = 1
    /\ genome[3].y = 1

\* C5: without a width the width used is the number of chunks, every chunk is
\* in row 0 and the k-th chunk (0-based) is in column k.
C5_DefaultWidth ==
    ("x" \in columns /\ ~width.isint) =>
        /\ self_width = IntArg(Len(genome))
        /\ \A k \in Rows : genome[k].y = 0 /\ genome[k].x = k - 1

C5_Witness ==
    /\ "x" \in columns
    /\ ~width.isint
    /\ Len(genome) >= 2
    /\ genome[1].start > 0
    /\ genome[Len(genome)].x = Len(genome) - 1

\* C6: a width <= 0 is rejected before any coordinate is assigned: neither the
\* ColorPicker construction nor add_xy_coordinates completes with such a width.
C6_NonPositiveWidthRejected ==
    (width.isint /\ width.v <= 0) => (~picker.built /\ "x" \notin columns)

\* the two colours are well-formed '#' + six hex digits
ValidColours == grad_start \in GradientColours /\ grad_finish \in GradientColours

\* C7: for valid colours and steps >= 2 linear_gradient returns exactly steps
\* colours, the first is the lower-cased start colour, and with start = finish
\* every colour is the lower-cased start colour.
C7_GradientShape ==
    (pc # "gradient" /\ ValidColours /\ grad_length.isint /\ grad_length.v >= 2) =>
        /\ grad_out.raised = NoErr
        /\ Len(grad_out.value) = grad_length.v
        /\ grad_out.value[1] = lower(grad_start)
        /\ grad_start = grad_finish =>
              \A t \in 1..Len(grad_out.value) : grad_out.value[t] = lower(grad_start)

C7_Witness ==
    /\ pc = "returned"
    /\ grad_start = <<"#", "0", "A", "6", "4", "c", "8">>
    /\ grad_finish = grad_start
    /\ grad_length = IntArg(MaxLength)
    /\ grad_out.value[MaxLength] = <<"#", "0", "a", "6", "4", "c", "8">>

\* C8: steps = 0 gives the empty list; a negative or non-integer steps raises
\* ValueError instead of returning a list.
C8_BadStepsRejected ==
    (pc # "gradient") =>
        /\ (ValidColours /\ grad_length = IntArg(0)) => grad_out = Returned(<<>>)
        /\ (~grad_length.isint \/ grad_length.v < 0) => grad_out.raised = "ValueError"

\* channel j of the t-th colour (t from 0) of the returned gradient, and the
\* numerator of its exact interpolation over the denominator steps - 1
Channel(t, j) == hex_to_rgb(grad_out.value[t + 1])[j]

Numerator(t, j) ==
    hex_to_rgb(grad_start)[j] * (grad_length.v - 1)
        + t * (hex_to_rgb(grad_finish)[j] - hex_to_rgb(grad_start)[j])

GradientOfSteps == pc = "returned" /\ grad_length.isint /\ grad_length.v >= 2

\* C9 as stated: every channel is the exact interpolation rounded to the nearest
\* integer.
C9_Rounded ==
    GradientOfSteps =>
        \A t \in 0..(grad_length.v - 1), j \in 1..3 :
            2 * Abs(Channel(t, j) * (grad_length.v - 1) - Numerator(t, j))
                <= grad_length.v - 1

\* C9 amended: every channel is the exact interpolation truncated (int()), the
\* largest integer not above it.
C9_Truncated ==
    GradientOfSteps =>
        \A t \in 0..(grad_length.v - 1), j \in 1..3 :
            /\ Channel(t, j) * (grad_length.v - 1) <= Numerator(t, j)
            /\ Numerator(t, j) < (Channel(t, j) + 1) * (grad_length.v - 1)

C9_Witness ==
    /\ GradientOfSteps
    /\ \E t \in 0..(grad_length.v - 1), j \in 1..3 :
          2 * (Numerator(t, j) % (grad_length.v - 1)) > grad_length.v - 1

\* C10: a dummy chunk gets exactly the first colour of the dummy gradient,
\* whatever its gc ratio and its column (no quantisation, no darkening).
C10_DummyColour ==
    pc = "done" =>
        \A k \in Rows :
            genome[k].GENCODE = "dummy" =>
                genome[k].color = picker.color_map["dummy"][1]

C10_Witness ==
    /\ pc = "done"
    /\ width.v > 0
    /\ \E k \in Rows : /\ genome[k].GENCODE = "dummy"
                       /\ IsNull(genome[k].GC_ratio)
    /\ \E k \in Rows : /\ genome[k].GENCODE = "dummy"
                       /\ 2 * genome[k].x > width.v
                       /\ genome[k].GC_ratio = Num(GcDen)

(***************************************************************************)
(* Properties of the direct calls of map_color and pick_color.             *)
(***************************************************************************)
\* a finished pick_color call on a Series that has its three fields
Picked == pc \in {"returned", "error"} /\ "row" \in DOMAIN call_args
                                        /\ "x" \in DOMAIN call_args.row

\* a finished map_color call
Mapped == pc \in {"returned", "error"} /\ "feature" \in DOMAIN call_args

NullGcPicked ==
    /\ Picked
    /\ IsNull(call_args.row.GC_ratio)
    /\ call_args.row.GENCODE # "dummy"

Hetero0 == picker.color_map["heterochromatin"][1]

\* the sum of the largest and the smallest channel: 510 times the HLS lightness
Lightness2(color) ==
    LET rgb == hex_to_rgb(color)
    IN  Max({rgb[1], rgb[2], rgb[3]}) + Min({rgb[1], rgb[2], rgb[3]})

ClampedIndex(cell, N) ==
    LET k == (cell[1] * (N - 1)) \div GcDen
    IN  IF k < 0 THEN 0 ELSE IF k > N - 1 THEN N - 1 ELSE k

\* C12: for a feature of the schema other than dummy and a defined gc ratio,
\* also one below 0 or above 1, map_color returns the element of the feature's
\* gradient at floor(gc * (N - 1)) clamped to [0, N - 1], and does not raise.
C12_ClampedIndex ==
    (/\ Mapped
     /\ call_args.feature \in Range(features) \ {"dummy"}
     /\ ~IsNull(call_args.gc_content))
    => call_out = Returned(picker.color_map[call_args.feature]
                              [ClampedIndex(call_args.gc_content, picker.count.v) + 1])

\* heterochromatin[0] as pick_color leaves it in column x
HeteroColourAt(x) ==
    IF RLt(picker.dark_threshold.q, Rat(x, picker.width.v))
    THEN color_darkener(Hetero0, IntArg(x), picker.width, picker.dark_threshold,
                        picker.dark_max).value
    ELSE Hetero0

\* add_genes labels intergenic the chunks that no feature overlaps
GenesStepFallback ==
    (pc = "genes" /\ "GENCODE" \notin columns) =>
        /\ pc' = "cen"
        /\ \A k \in Rows : Overlapping(genome[k]) = {} => genome'[k].GENCODE = "intergenic"

\* the colouring of the table does not stop at a chunk without gc ratio
ColourStepFallback ==
    (pc = "colors" /\ width.v > 0 /\ \E k \in Rows : IsNull(genome[k].GC_ratio)) =>
        /\ pc' = "done"
        /\ \A k \in Rows :
              (IsNull(genome[k].GC_ratio) /\ genome[k].GENCODE # "dummy")
              => genome'[k].color = HeteroColourAt(genome[k].x)

MapColorFallback ==
    pc = "map_color" =>
        /\ (IsNull(call_args.gc_content) /\ call_args.feature # "dummy")
           => call_out' = Returned(Hetero0)
        /\ (~IsNull(call_args.gc_content) /\ call_args.feature \notin Range(features))
           => call_out' = Returned(Black)

PickColorFallback ==
    (/\ pc = "pick_color"
     /\ "x" \in DOMAIN call_args.row
     /\ \/ IsNull(call_args.row.GC_ratio)
        \/ call_args.row.GENCODE \notin Range(features))
    => /\ pc' = "returned"
       /\ call_out'.raised = NoErr

SweptColumns == 1..Len(call_log)

\* column / row_width > threshold, for an integer width other than 0
PastThreshold(i) ==
    RLt(call_args.threshold.q, Rat(i - 1, call_args.width.v))

\* '#' followed by exactly six hex digits
IsHexColour(value) ==
    /\ Len(value) = 7
    /\ value[1] = "#"
    /\ \A i \in 2..7 : is_hex_digit(value[i])

\* C14: for a fixed colour, width, threshold and max_diff_value, every column
\* with column / width <= threshold gets the input colour unchanged, and past
\* the threshold the lightness of the returned colour is at most that of the
\* input colour and non-increasing as the column increases.
C14_DarkenerMonotonic ==
    \A i \in SweptColumns :
        call_log[i].raised = NoErr =>
            IF ~PastThreshold(i) THEN call_log[i].value = call_args.color
            ELSE IsHexColour(call_log[i].value) =>
                    /\ Lightness2(call_log[i].value) <= Lightness2(call_args.color)
                    /\ \A j \in SweptColumns :
                          (/\ j > i
                           /\ call_log[j].raised = NoErr
                           /\ IsHexColour(call_log[j].value))
                          => Lightness2(call_log[j].value) <= Lightness2(call_log[i].value)

C14_Witness ==
    /\ pc = "swept"
    /\ call_args.color = <<"#", "1", "0", "F", "f", "8", "0">>
    /\ call_args.width = IntArg(MaxWidth)
    /\ call_log[1].value = call_args.color
    /\ call_log[2].value = call_args.color
    /\ \E i \in SweptColumns :
          /\ i < MaxWidth
          /\ IsHexColour(call_log[i + 1].value)
          /\ Lightness2(call_log[i + 1].value) < Lightness2(call_log[i].value)
          /\ Lightness2(call_log[i + 1].value) > 0

\* C15: every value color_darkener returns, also for a column greater than the
\* width, is '#' followed by exactly six hex digits, and the lightness factor
\* applied past the threshold is at least 1 - max_diff_value.
C15_ValidOutput ==
    \A i \in SweptColumns :
        call_log[i].raised = NoErr =>
            /\ IsHexColour(call_log[i].value)
            /\ PastThreshold(i) =>
                  RLe(RSub(RInt(1), call_args.max_diff_value.q),
                      darken_factor(i - 1, call_args.width.v, call_args.threshold.q,
                                    call_args.max_diff_value.q))

\* the arguments the darkener is said to reject
InvalidDarkenerCall ==
    \/ ~call_args.threshold.isfloat
    \/ RLe(RInt(1), call_args.threshold.q)
    \/ ~call_args.max_diff_value.isfloat
    \/ RLe(RInt(1), call_args.max_diff_value.q)
    \/ ~IsHexColour(call_args.color)
    \/ ~call_args.width.isint
    \/ call_args.width.v <= 0

\* C16: a call with threshold >= 1, max_diff_value >= 1, a colour that is not
\* '#' and six hex digits, or a width that is not a positive integer raises a
\* validation error (TypeError or ValueError) in its first column already: it
\* neither returns a colour nor fails in another way.
C16_InvalidRejected ==
    (call_log # <<>> /\ InvalidDarkenerCall) =>
        call_log[1].raised \in {"TypeError", "ValueError"}

(***************************************************************************)
(* Properties of the ColorPicker constructor.                              *)
(***************************************************************************)
\* the configurations the constructor is said to refuse
InvalidPickerConfig ==
    \/ ~cfg_colors.isdict
    \/ ~(Range(features) \subseteq DOMAIN cfg_colors.map)
    \/ \E key \in DOMAIN cfg_colors.map : ~IsHexColour(cfg_colors.map[key])
    \/ ~dark_value_ok(cfg_dark_max)
    \/ ~dark_value_ok(cfg_dark_start)
    \/ ~cfg_count.isint
    \/ ~width.isint
    \/ cfg_count.v <= 0
    \/ width.v <= 0

\* C17: the constructor raises and leaves no picker when the colours are not a
\* dictionary, a feature key is missing, a value is not '#' and six hex digits,
\* dark_max or dark_threshold is not a float strictly between 0 and 1, or count
\* or width is not a positive integer.
C17_BadConfigRejected ==
    (pc # "start" /\ InvalidPickerConfig) =>
        /\ pc = "error"
        /\ err \in {"TypeError", "ValueError"}
        /\ picker = NoPicker

(***************************************************************************)
(* Properties of the gene label layout.  Every gene appends four elements  *)
(* to gene_annot: the third is the line at the label's text position, the  *)
(* first the line at the gene's natural position.                          *)
(***************************************************************************)
Labels == 1..(Len(ga.gene_annot) \div 4)

NaturalPos(g) == ga.gene_annot[4 * g - 3].y1

TextPos(g) == ga.gene_annot[4 * g - 1].y1

CentromerePos == convert(ga.width, ga.chunkSize, ga.pixel, ga.centromerePosition)

\* the arm of a label, from the side of the centromere its gene lies on
ArmOf(g) == IF RLe(NaturalPos(g), CentromerePos) THEN "p" ELSE "q"

RAbs(q) == IF q.n < 0 THEN RNeg(q) ELSE q

\* label_height + margin
LabelSpace == ga.fontSize + 10

LastTextPos == ga'.gene_annot[Len(ga'.gene_annot) - 1].y1

LimitMoved ==
    limit' = IF arm = "p" THEN RSub(LastTextPos, RInt(LabelSpace))
             ELSE RAdd(LastTextPos, RInt(LabelSpace))

IterationOf(row) ==
    /\ pc = "genes_on_chromosome_arms"
    /\ row \in arm_df
    /\ arm_df' = arm_df \ {row}

RowPos(row) == convert(ga.width, ga.chunkSize, ga.pixel, row.start)

\* C19 as stated: with the limit L before the iteration, the label is at the
\* natural position when position <= L (p-arm) or position >= L (q-arm) and
\* exactly at L otherwise; the limit then lies label_height + margin beyond
\* the text position, away from the centromere.
C19_DisplacedAtLimit ==
    [][\A row \in arm_df :
          IterationOf(row) =>
              /\ LastTextPos =
                    IF arm = "p"
                    THEN (IF RLe(RowPos(row), limit) THEN RowPos(row) ELSE limit)
                    ELSE (IF RLe(limit, RowPos(row)) THEN RowPos(row) ELSE limit)
              /\ LimitMoved]_vars

\* C19 amended: on the p-arm the label is at the natural position when
\* position < L and at L - 10 otherwise; on the q-arm at the natural position
\* when position >= L and at L + 10 otherwise; the limit then lies
\* label_height + margin beyond the text position, away from the centromere.
C19_DisplacedPastLimit ==
    [][\A row \in arm_df :
          IterationOf(row) =>
              /\ LastTextPos =
                    IF arm = "p"
                    THEN (IF RLt(RowPos(row), limit) THEN RowPos(row)
                          ELSE RSub(limit, RInt(10)))
                    ELSE (IF RLe(limit, RowPos(row)) THEN RowPos(row)
                          ELSE RAdd(limit, RInt(10)))
              /\ LimitMoved]_vars

\* a p-arm gene whose natural position is the limit its predecessor left, and
\* a displaced label on the q-arm
C19_Witness ==
    /\ pc = "annotated"
    /\ \E g \in Labels :
          /\ g + 1 \in Labels
          /\ ArmOf(g) = "p" /\ ArmOf(g + 1) = "p"
          /\ NaturalPos(g + 1) = RSub(TextPos(g), RInt(LabelSpace))
          /\ TextPos(g + 1) = RSub(NaturalPos(g + 1), RInt(10))
    /\ \E g \in Labels :
          /\ ArmOf(g) = "q"
          /\ RLt(NaturalPos(g), TextPos(g))

\* C20: for a chromosome without any gene in the gene file the annotation is
\* empty (no line, no text) and get_dimensions returns (0, height).
C20_NoGenes ==
    (/\ pc = "annotated"
     /\ \A r \in ga_args.gene_file : r.chr # ga_args.chromosome)
    => /\ get_annotation(ga) = <<>>
       /\ get_dimensions(ga) = <<RInt(0), RInt(ga_args.height)>>

C20_Witness ==
    /\ pc = "annotated"
    /\ ga_args.gene_file # {}
    /\ \A r \in ga_args.gene_file : r.chr # ga_args.chromosome
    /\ get_annotation(ga) = <<>>
    /\ get_dimensions(ga) = <<RInt(0), RInt(Height)>>

(***************************************************************************)
(* Runs of the drivers: determinism, caller tables, final table, order of  *)
(* the steps.                                                              *)
(***************************************************************************)
\* the chunk as the chromosome file gives it
SameChunk(a, b) ==
    a.chr = b.chr /\ a.start = b.start /\ a.end = b.end /\ a.GC_ratio = b.GC_ratio

\* C21: the table a driver produces for a chromosome is a function of that
\* chromosome's inputs: it annotates exactly the chunks of the table supplied,
\* and it equals the table of every earlier run of the process on the same
\* input, whether or not another chromosome was processed in between (with
\* the same ColorPicker for integrate).
C21_SameInputsSameTable ==
    pc = "done" =>
        /\ Len(run_result) = Len(chr_df.rows)
        /\ \A k \in 1..Len(run_result) : SameChunk(run_result[k], chr_df.rows[k])
        /\ \A i \in 1..Len(runs) :
              runs[i].input = chr_df => runs[i].output = run_result

C21_Witness ==
    /\ pc = "done"
    /\ driver = "integrate"
    /\ Len(runs) = 2
    /\ runs[1].input = chr_df
    /\ runs[2].input # chr_df
    /\ runs[2].output # run_result
    /\ \E k \in 1..Len(run_result) : run_result[k].GENCODE = "exon"

\* C22: no pipeline operation (the construction of the DataIntegrator,
\* add_xy_coordinates, add_genes, add_centromere, assign_hetero, add_dummy,
\* add_colors) changes a table of the caller: the chunk table, the gene/exon
\* table and the cytoband table are the same after every step of a run.
C22_CallerTablesUnchanged ==
    [][pc # "done" =>
          /\ chr_df' = chr_df
          /\ gencode_df' = gencode_df
          /\ cyb_df' = cyb_df]_vars

C22_Witness ==
    /\ pc = "done"
    /\ driver = "integrate_data"
    /\ dummy
    /\ "GENCODE" \in columns
    /\ chr_df.columns = RawColumns
    /\ \E k \in 1..Len(genome) :
          /\ genome[k].GENCODE = "centromere"
          /\ chr_df.rows[k].GENCODE = NoLabel
    /\ gencode_df = GenomeFeatures
    /\ cyb_df = GenomeBands

\* the gc ratios of the table are null or within [0, 1]
GcInRange == \A k \in Rows : \A v \in Range(genome[k].GC_ratio) : 0 <= v /\ v <= GcDen

\* C23: when integrator_wrapper completes, in normal and in dummy mode, on a
\* chunk table whose defined gc ratios lie in [0, 1], every chunk carries one
\* of the six feature classes (never a null) and a colour that is '#' followed
\* by six hex digits.
C23_FinalTable ==
    (pc = "done" /\ driver = "integrator_wrapper" /\ GcInRange) =>
        \A k \in Rows :
            /\ genome[k].GENCODE \in Range(features)
            /\ IsHexColour(genome[k].color)

C23_Witness ==
    /\ pc = "done"
    /\ driver = "integrator_wrapper"
    /\ dummy
    /\ \E k \in Rows : genome[k].GENCODE = "dummy" /\ IsNull(genome[k].GC_ratio)
    /\ \E k \in Rows : genome[k].GENCODE = "dummy" /\ genome[k].GC_ratio = Num(GcDen)
    /\ \E k \in Rows : genome[k].GENCODE = "centromere" /\ IsHexColour(genome[k].color)

\* the five steps of the orchestration, in order
FiveSteps ==
    <<"add_xy_coordinates", "add_genes", "add_centromere", "assign_hetero", "add_colors">>

\* the steps of the run; integrate_data leaves the colouring to what follows it
StepsWithColouring ==
    IF driver = "integrate_data" THEN Append(steps, "add_colors") ELSE steps

\* C25: every driver that builds an annotated table (integrator_wrapper in
\* normal mode, CustomGeneIntegrator.integrate, integrate_data followed by the
\* colouring) performs the five steps once each and in the order coordinates,
\* gene/exon classification, centromere pass, heterochromatin override,
\* colours.
C25_FiveStepsInOrder ==
    (pc = "done" /\ ~dummy) => StepsWithColouring = FiveSteps

\* add_xy_coordinates has run on the table of CustomGeneIntegrator.integrate
SubRangeCoordinates == driver = "integrate" /\ "x" \in columns

\* C26 as stated: with an explicit width the k-th chunk (0-based) of the table
\* given, a filtered sub-range of the chromosome, gets column k mod width and
\* row floor(k / width), so that the first chunk of the table is at (0, 0).
C26_TableOrdinal ==
    SubRangeCoordinates =>
        \A k \in Rows :
            /\ genome[k].x = (k - 1) % width.v
            /\ genome[k].y = (k - 1) \div width.v

\* C26 as the code has it: the chunk whose position in the chromosome file is
\* i (its index label, kept by the filter) gets column i mod width and row
\* floor(i / width); the k-th chunk of a sub-range that starts at position o
\* is at ((o + k) mod width, floor((o + k) / width)).
C26_ChromosomeOrdinal ==
    SubRangeCoordinates =>
        \A k \in Rows :
            LET i == genome[1].index + (k - 1)
            IN  /\ genome[k].index = i
                /\ genome[k].start = i * ChunkSize
                /\ genome[k].x = i % width.v
                /\ genome[k].y = i \div width.v

C26_Witness ==
    /\ SubRangeCoordinates
    /\ width = IntArg(2)
    /\ Len(genome) = 3
    /\ genome[1].index = 1
    /\ genome[1].x = 1 /\ genome[1].y = 0
    /\ genome[3].x = 1 /\ genome[3].y = 1

(***************************************************************************)
(* The gene labels of a chromosome: which genes, which arm, which order,   *)
(* and the extents of the drawing.                                         *)
(***************************************************************************)
\* the genes of the chromosome in the gene file
OwnGenes == {r \in ga_args.gene_file : r.chr = ga_args.chromosome}

LabelName(g) == ga.gene_annot[4 * g].gene_name

\* the row of the gene file a label was written for
GeneOf(g) == CHOOSE r \in ga_args.gene_file : r.name = LabelName(g)

OnPArm(r) == r.start <= ga_args.centromerePosition

\* C27: generate_gene_annotation writes one label for every gene of the
\* chromosome in the gene file and none for a gene of another chromosome; the
\* genes with start <= centromere are laid out on the p-arm in decreasing
\* order of start, the genes with start > centromere on the q-arm in
\* increasing order of start; the limit of each arm starts at the pixel
\* position of the centromere, whatever the other arm left.
C27_OneLabelPerGene ==
    /\ [](pc = "annotated" =>
            /\ \A r \in OwnGenes : Cardinality({g \in Labels : LabelName(g) = r.name}) = 1
            /\ \A g \in Labels : GeneOf(g) \in OwnGenes
            /\ Cardinality(Labels) = Cardinality(OwnGenes)
            /\ \A g \in Labels, h \in Labels :
                  g < h =>
                      /\ OnPArm(GeneOf(h)) => /\ OnPArm(GeneOf(g))
                                              /\ GeneOf(g).start >= GeneOf(h).start
                      /\ ~OnPArm(GeneOf(g)) => /\ ~OnPArm(GeneOf(h))
                                               /\ GeneOf(g).start <= GeneOf(h).start)
    /\ [][arm' # arm => limit' = CentromerePos']_vars

C27_Witness ==
    /\ pc = "annotated"
    /\ Cardinality(Labels) = 4
    /\ OnPArm(GeneOf(1)) /\ GeneOf(1).start = ga_args.centromerePosition
    /\ OnPArm(GeneOf(2)) /\ GeneOf(2).start < GeneOf(1).start
    /\ ~OnPArm(GeneOf(3))
    /\ GeneOf(4).start > GeneOf(3).start
    /\ limit # CentromerePos

\* the object exists: the constructor has run
Constructed == pc \in {"generate_gene_annotation", "genes_on_chromosome_arms", "annotated"}

\* C28: at every point of the layout the extents that get_dimensions returns
\* enclose the initial bounds and every label placed so far: top <= 0,
\* bottom >= height, top <= p <= bottom for every text position p; the top
\* never increases and the bottom never decreases.
C28_ExtentsEnclose ==
    /\ [](Constructed =>
            /\ RLe(get_dimensions(ga)[1], RInt(0))
            /\ RLe(RInt(ga_args.height), get_dimensions(ga)[2])
            /\ \A g \in Labels : /\ RLe(get_dimensions(ga)[1], TextPos(g))
                                 /\ RLe(TextPos(g), get_dimensions(ga)[2]))
    /\ [][Constructed => /\ RLe(ga'.svg_top, ga.svg_top)
                         /\ RLe(ga.svg_bottom, ga'.svg_bottom)]_vars

C28_Witness ==
    /\ pc = "annotated"
    /\ RLt(get_dimensions(ga)[1], RInt(0))
    /\ RLt(RInt(ga_args.height), get_dimensions(ga)[2])
    /\ \E g \in Labels : RLt(TextPos(g), RInt(0))
    /\ \E g \in Labels : RLt(RInt(ga_args.height), TextPos(g))

\* C29: the two arms never interleave: every text position of the p-arm is
\* strictly smaller than the pixel position of the centromere and every text
\* position of the q-arm strictly larger, and along each arm the text
\* positions are strictly monotone in the order the genes are processed
\* (decreasing on the p-arm, increasing on the q-arm).
C29_ArmsApart ==
    Constructed =>
        /\ \A g \in Labels :
              IF OnPArm(GeneOf(g)) THEN RLt(TextPos(g), CentromerePos)
              ELSE RLt(CentromerePos, TextPos(g))
        /\ \A g \in Labels, h \in Labels :
              (g < h /\ OnPArm(GeneOf(g)) = OnPArm(GeneOf(h))) =>
                  IF OnPArm(GeneOf(g)) THEN RLt(TextPos(h), TextPos(g))
                  ELSE RLt(TextPos(g), TextPos(h))

C29_Witness ==
    /\ pc = "annotated"
    /\ \E g \in Labels : /\ GeneOf(g).start = ga_args.centromerePosition
                         /\ TextPos(g) = RSub(CentromerePos, RInt(10))
    /\ \E g \in Labels, h \in Labels :
          /\ g < h /\ OnPArm(GeneOf(g)) /\ OnPArm(GeneOf(h))
          /\ GeneOf(g).start = GeneOf(h).start
    /\ \E g \in Labels, h \in Labels :
          /\ g < h /\ ~OnPArm(GeneOf(g)) /\ ~OnPArm(GeneOf(h))
          /\ GeneOf(g).start = GeneOf(h).start

(***************************************************************************)
(* FetchGencode.                                                           *)
(***************************************************************************)
CanonicalReturned == pc = "returned" /\ "transcripts" \in DOMAIN call_args

WithCcds == {i \in DOMAIN call_args.transcripts : ~IsNull(call_args.transcripts[i].ccdsid)}

\* the rows the returned transcript id names
Chosen == {i \in DOMAIN call_args.transcripts :
              call_args.transcripts[i].transcript_id = call_out.value}

\* C24: when at least one transcript carries a CCDS id, the transcript
\* get_canonical_transcript returns carries a CCDS id itself and its CDS
\* length is the largest among the CCDS transcripts, whatever the order of the
\* rows and the CDS lengths of the transcripts without a CCDS id.
C24_CanonicalIsCcds ==
    (CanonicalReturned /\ WithCcds # {}) =>
        \A i \in Chosen :
            /\ i \in WithCcds
            /\ \A j \in WithCcds :
                  call_args.transcripts[j].cds_length <= call_args.transcripts[i].cds_length

StructureReturned == pc = "returned" /\ "exons" \in DOMAIN call_args

\* a transcript spanning [start, end] with at least one exon, every exon an
\* interval inside it, no two exons overlapping
ExonsWithin ==
    /\ call_args.exons # {}
    /\ \A e \in call_args.exons :
          call_args.start <= e.start /\ e.start <= e.end /\ e.end <= call_args.end
    /\ \A a \in call_args.exons, b \in call_args.exons :
          a # b => (a.end <= b.start \/ b.end <= a.start)

\* the same, every exon of positive length (length = end - start)
ExonsInside ==
    /\ ExonsWithin
    /\ \A e \in call_args.exons : e.start < e.end

FeaturesOfType(f, type) ==
    {[start |-> f[i].start, end |-> f[i].end] : i \in {j \in DOMAIN f : f[j].type = type}}

\* the returned features tile [start, end]: the first starts at start, each
\* starts where the previous one ends, the last ends at end, every input exon
\* appears once as an exon, every gap once as an intron, and no feature has
\* zero or negative length
Tiles ==
    LET f == call_out.value
        n == Len(f)
    IN  /\ n >= 1
        /\ f[1].start = call_args.start
        /\ f[n].end = call_args.end
        /\ \A i \in 1..(n - 1) : f[i].end = f[i + 1].start
        /\ \A i \in 1..n : f[i].start < f[i].end
        /\ FeaturesOfType(f, "exon") = call_args.exons
        /\ Cardinality({i \in 1..n : f[i].type = "exon"}) = Cardinality(call_args.exons)
        /\ \A i \in 1..n : f[i].type \in {"exon", "intron"}
        /\ \A i \in 1..(n - 1) : ~(f[i].type = "intron" /\ f[i + 1].type = "intron")

\* C30 as stated: for a transcript spanning [start, end] with non-overlapping
\* exons inside it, the features generate_exon_intron_structure returns tile
\* [start, end] and none of them has zero or negative length.
C30_TilingAnyExons == (StructureReturned /\ ExonsWithin) => Tiles

\* C30: for a transcript spanning [start, end] with non-overlapping exons of
\* positive length inside it, the features generate_exon_intron_structure
\* returns tile [start, end]: sorted by start, the first starts at start, each
\* starts where the previous one ends, the last ends at end, every input exon
\* appears once as an exon, every gap once as an intron, and no feature has
\* zero or negative length.
C30_Tiling == (StructureReturned /\ ExonsInside) => Tiles

C30_Witness ==
    /\ StructureReturned
    /\ ExonsInside
    /\ Cardinality(call_args.exons) = 2
    /\ Len(call_out.value) = 5
    /\ call_out.value[1].type = "intron"
    /\ call_out.value[3].type = "intron"
    /\ call_out.value[5].type = "intron"
====
